---- MODULE Spec2Model ----
(***************************************************************************)
(* A model of the page-data extraction pipeline of scrape-site:            *)
(*   - the base record assembler extractBaseDataFromHtml                   *)
(*     (src/lib/scraper-utils.ts), stage by stage;                         *)
(*   - the scrape-ai POST handler (src/app/api/scrape-ai/route.ts) as a    *)
(*     state machine over its operation stages.                            *)
(*                                                                         *)
(* Text is modelled as sequences of one-character strings, so that the     *)
(* string functions of the code (sanitizeText, replace, includes, ...)     *)
(* are computed and not assumed.  JavaScript null and undefined are the    *)
(* one-element sequences Null and Undef, which no text equals.             *)
(*                                                                         *)
(* A value the code names in a local variable and reads more than once is  *)
(* passed on as the parameter of the operator that models the rest of the  *)
(* function.                                                               *)
(***************************************************************************)
EXTENDS Integers, Sequences, FiniteSets, TLC

\* ------------------------------------------------------------------ text

Null == <<"<null>">>
Undef == <<"<undefined>">>
NBSP == "<nbsp>"

IsNil(v) == v = Null \/ v = Undef

\* JavaScript truthiness of a string|null|undefined value.
Truthy(v) == ~IsNil(v) /\ v # <<>>
\* a || b
Or(a, b) == IF Truthy(a) THEN a ELSE b

Indices(s) == [i \in 1..Len(s) |-> i]
Min(a, b) == IF a < b THEN a ELSE b
\* the elements of seq at the given indices
Pick(seq, idx) == [k \in 1..Len(idx) |-> seq[idx[k]]]

\* String.prototype.slice(0, n) / substring(0, n), n >= 0.
Take(s, n) == SubSeq(s, 1, Min(n, Len(s)))
Drop(s, n) == SubSeq(s, n + 1, Len(s))

StartsWith(s, p) == Len(p) <= Len(s) /\ SubSeq(s, 1, Len(p)) = p
EndsWith(s, p) == Len(p) <= Len(s) /\ SubSeq(s, Len(s) - Len(p) + 1, Len(s)) = p
\* String.prototype.includes
Includes(s, p) == \E i \in 0..(Len(s) - Len(p)) : SubSeq(s, i + 1, i + Len(p)) = p
\* String.prototype.indexOf, 0-based, -1 when absent.
IndexOf(s, p) ==
    IF Includes(s, p)
    THEN CHOOSE i \in 0..(Len(s) - Len(p)) :
            /\ SubSeq(s, i + 1, i + Len(p)) = p
            /\ \A j \in 0..(i - 1) : SubSeq(s, j + 1, j + Len(p)) # p
    ELSE -1
\* String.prototype.lastIndexOf for a one-character pattern, 0-based.
LastIndexOfChar(s, c) ==
    IF \E i \in 1..Len(s) : s[i] = c
    THEN (CHOOSE i \in 1..Len(s) : s[i] = c /\ \A j \in (i + 1)..Len(s) : s[j] # c) - 1
    ELSE -1

ReplaceAt(s, k, d) == IF k < 0 THEN s ELSE [i \in 1..Len(s) |-> IF i = k + 1 THEN d ELSE s[i]]
\* String.prototype.replace(c, d) with a string pattern: the first occurrence only.
ReplaceFirstChar(s, c, d) == ReplaceAt(s, IndexOf(s, <<c>>), d)
\* String.prototype.replace(/c/g, d) for a one-character pattern.
ReplaceAllChar(s, c, d) == [i \in 1..Len(s) |-> IF s[i] = c THEN d ELSE s[i]]

Upper == "A" :> "a" @@ "B" :> "b" @@ "C" :> "c" @@ "D" :> "d" @@ "E" :> "e" @@
         "F" :> "f" @@ "G" :> "g" @@ "H" :> "h" @@ "I" :> "i" @@ "J" :> "j" @@
         "K" :> "k" @@ "L" :> "l" @@ "M" :> "m" @@ "N" :> "n" @@ "O" :> "o" @@
         "P" :> "p" @@ "Q" :> "q" @@ "R" :> "r" @@ "S" :> "s" @@ "T" :> "t" @@
         "U" :> "u" @@ "V" :> "v" @@ "W" :> "w" @@ "X" :> "x" @@ "Y" :> "y" @@
         "Z" :> "z"
Recase(s, table) == [i \in 1..Len(s) |-> IF s[i] \in DOMAIN table THEN table[s[i]] ELSE s[i]]
\* String.prototype.toLowerCase over the letters of the model's texts.
ToLower(s) == Recase(s, Upper)

Digits == {"0", "1", "2", "3", "4", "5", "6", "7", "8", "9"}
\* the regular expression class \s, as far as the model's texts go
IsWs(c) == c \in {" ", "\t", "\n", NBSP}
WsAt(s, i) == i >= 1 /\ i <= Len(s) /\ IsWs(s[i])

\* s.replace(/\s\s+/g, ' '): every run of two or more whitespace characters
\* becomes one space; a single whitespace character is left as it is.
InRun(s, i) == WsAt(s, i) /\ (WsAt(s, i - 1) \/ WsAt(s, i + 1))
RunsCollapsed(s, kept) == [k \in 1..Len(kept) |-> IF InRun(s, kept[k]) THEN " " ELSE s[kept[k]]]
CollapseRuns(s) ==
    RunsCollapsed(s, SelectSeq(Indices(s), LAMBDA i : ~(WsAt(s, i) /\ WsAt(s, i - 1))))

\* String.prototype.trim
Trim(s) ==
    IF \A i \in 1..Len(s) : IsWs(s[i]) THEN <<>>
    ELSE SubSeq(s,
            CHOOSE i \in 1..Len(s) : ~IsWs(s[i]) /\ \A j \in 1..(i - 1) : IsWs(s[j]),
            CHOOSE i \in 1..Len(s) : ~IsWs(s[i]) /\ \A j \in (i + 1)..Len(s) : IsWs(s[j]))

NullIfEmpty(t) == IF t = <<>> THEN Null ELSE t
sanitizeText(text) ==
    IF IsNil(text) THEN Null
    ELSE NullIfEmpty(Trim(ReplaceAllChar(CollapseRuns(text), NBSP, " ")))

\* ------------------------------------------------------------------ URLs
\* The URL class of Node (the WHATWG URL parser) on the model's texts: schemes,
\* credentials, hosts, ports, dot segments, percent-encoding, and references
\* resolved against a base.  Left out: IPv6 literals, IPv4 hosts written other
\* than as four plain decimal numbers, percent-escapes and non-ASCII letters in
\* a host name, the drive letters of file URLs, and the grave accent, which is
\* no character of the model's texts.

\* The prefix of s before its first character in stops.
UpTo(s, stops) ==
    IF \E i \in 1..Len(s) : s[i] \in stops
    THEN SubSeq(s, 1, (CHOOSE i \in 1..Len(s) :
                          s[i] \in stops /\ \A j \in 1..(i - 1) : s[j] \notin stops) - 1)
    ELSE s

\* the first index from i on whose character is in set, Len(s) + 1 when none is
RECURSIVE FirstIn(_, _, _)
FirstIn(s, set, i) == IF i > Len(s) \/ s[i] \in set THEN i ELSE FirstIn(s, set, i + 1)
RECURSIVE FirstNotIn(_, _, _)
FirstNotIn(s, set, i) == IF i > Len(s) \/ s[i] \notin set THEN i ELSE FirstNotIn(s, set, i + 1)
RECURSIVE LastNotIn(_, _, _)
LastNotIn(s, set, i) == IF i < 1 \/ s[i] \notin set THEN i ELSE LastNotIn(s, set, i - 1)
\* String.prototype.split for a set of one-character separators
RECURSIVE SplitAt(_, _)
SplitAt(s, seps) ==
    LET k == FirstIn(s, seps, 1)
    IN  IF k > Len(s) THEN <<s>> ELSE <<SubSeq(s, 1, k - 1)>> \o SplitAt(Drop(s, k), seps)
\* String(v) of a string|null|undefined value
Str(v) == IF v = Null THEN <<"n", "u", "l", "l">> ELSE IF v = Undef THEN <<"u", "n", "d", "e",
        "f", "i", "n", "e", "d">> ELSE v

Alpha == DOMAIN Upper \cup {Upper[c] : c \in DOMAIN Upper}
SchemeChars == Alpha \cup Digits \cup {"+", "-", "."}
DefaultPort ==
    <<"h", "t", "t", "p">> :> <<"8", "0">> @@ <<"h", "t", "t", "p", "s">> :> <<"4", "4",
            "3">> @@ <<"f", "t", "p">> :> <<"2", "1">> @@ <<"w", "s">> :> <<"8", "0">> @@
    <<"w", "s", "s">> :> <<"4", "4", "3">>
FileScheme == <<"f", "i", "l", "e">>
IsSpecial(scheme) == scheme \in DOMAIN DefaultPort \/ scheme = FileScheme
Slashes(special) == IF special THEN {"/", "\\"} ELSE {"/"}

Escapes ==
    " " :> <<"%", "2", "0">> @@ "\"" :> <<"%", "2", "2">> @@ "#" :> <<"%", "2",
            "3">> @@ "<" :> <<"%", "3", "C">> @@ ">" :> <<"%", "3", "E">> @@
    "?" :> <<"%", "3", "F">> @@ "{" :> <<"%", "7", "B">> @@ "}" :> <<"%", "7", "D">> @@
    "'" :> <<"%", "2", "7">> @@ "/" :> <<"%", "2", "F">> @@ ":" :> <<"%", "3",
            "A">> @@ ";" :> <<"%", "3", "B">> @@
    "=" :> <<"%", "3", "D">> @@ "@" :> <<"%", "4", "0">> @@ "[" :> <<"%", "5",
            "B">> @@ "\\" :> <<"%", "5", "C">> @@ "]" :> <<"%", "5", "D">> @@
    "^" :> <<"%", "5", "E">> @@ "|" :> <<"%", "7", "C">> @@ NBSP :> <<"%", "C", "2", "%", "A", "0">>
FragmentSet == {" ", "\"", "<", ">", NBSP}
QuerySet == {" ", "\"", "#", "<", ">", NBSP}
PathSet == QuerySet \cup {"?", "{", "}"}
UserinfoSet == PathSet \cup {"/", ":", ";", "=", "@", "[", "\\", "]", "^", "|"}
QuerySetOf(special) == IF special THEN QuerySet \cup {"'"} ELSE QuerySet
\* the percent-encoding of the characters of s that are in set
RECURSIVE Encoded(_, _)
Encoded(s, set) ==
    IF \A i \in 1..Len(s) : s[i] \notin set THEN s
    ELSE (IF Head(s) \in set THEN Escapes[Head(s)] ELSE <<Head(s)>>) \o Encoded(Tail(s), set)
EncodedOrNull(s, set) == IF s = Null THEN Null ELSE Encoded(s, set)

\* leading and trailing spaces and control characters go, then every tab and newline
Cleaned(input) ==
    SelectSeq(SubSeq(input, FirstNotIn(input, {" ", "\t", "\n"}, 1),
                     LastNotIn(input, {" ", "\t", "\n"}, Len(input))),
              LAMBDA c : c \notin {"\t", "\n"})
\* the index of the colon that ends the scheme of s, 0 when s starts with none
SchemeEndAt(s, k) == IF k <= Len(s) /\ s[k] = ":" THEN k ELSE 0
SchemeEnd(s) ==
    IF s # <<>> /\ s[1] \in Alpha THEN SchemeEndAt(s, FirstNotIn(s, SchemeChars, 1)) ELSE 0

\* the reference cut at its first '#' and, before it, at its first '?'
Parts(r) ==
    LET mark == FirstIn(r, {"?", "#"}, 1)
        hash == FirstIn(r, {"#"}, mark)
    IN  [path |-> Take(r, mark - 1),
         query |-> IF mark = hash THEN Null ELSE SubSeq(r, mark + 1, hash - 1),
         fragment |-> IF hash > Len(r) THEN Null ELSE Drop(r, hash)]

RECURSIVE PathOf(_)
PathOf(segments) ==
    IF segments = <<>> THEN <<>> ELSE <<"/">> \o Head(segments) \o PathOf(Tail(segments))
NoUrl ==
    [ok |-> FALSE, scheme |-> <<>>, opaque |-> FALSE, userinfo |-> <<>>, host |-> Null,
     port |-> <<>>, path |-> <<>>, query |-> Null, fragment |-> Null, protocol |-> <<>>,
     hostname |-> <<>>, pathname |-> <<>>, search |-> <<>>, hash |-> <<>>, href |-> <<>>]
Prefixed(mark, part) == IF part = Null THEN <<>> ELSE <<mark>> \o part
NonEmptyPrefixed(mark, part) == IF part = Null \/ part = <<>> THEN <<>> ELSE <<mark>> \o part
\* the URL record and its serialisation; path is the list of segments, or the
\* text of an opaque path
UrlOf(scheme, opaque, userinfo, host, port, path, query, fragment) ==
    LET pathname == IF opaque THEN path ELSE PathOf(path)
    IN  [ok |-> TRUE, scheme |-> scheme, opaque |-> opaque, userinfo |-> userinfo,
         host |-> host, port |-> port, path |-> path, query |-> query,
         fragment |-> fragment,
         protocol |-> scheme \o <<":">>,
         hostname |-> IF host = Null THEN <<>> ELSE host,
         pathname |-> pathname,
         search |-> NonEmptyPrefixed("?", query),
         hash |-> NonEmptyPrefixed("#", fragment),
         href |-> scheme \o <<":">>
                  \o (IF host = Null THEN <<>>
                      ELSE <<"/", "/">> \o userinfo \o host \o NonEmptyPrefixed(":", port))
                  \o pathname \o Prefixed("?", query) \o Prefixed("#", fragment)]

IsDot(seg) == ToLower(seg) \in {<<".">>, <<"%", "2", "e">>}
IsDotDot(seg) == ToLower(seg) \in {<<".", ".">>, <<".", "%", "2", "e">>, <<"%", "2", "e",
        ".">>, <<"%", "2", "e", "%", "2", "e">>}
ShortenedPath(path) == IF path = <<>> THEN <<>> ELSE SubSeq(path, 1, Len(path) - 1)
\* the path state: the raw segments still to read are added to path
RECURSIVE PathWith(_, _)
PathWith(path, segs) ==
    IF segs = <<>> THEN path
    ELSE IF IsDotDot(Head(segs))
    THEN PathWith(IF Len(segs) = 1 THEN Append(ShortenedPath(path), <<>>)
                  ELSE ShortenedPath(path),
                  Tail(segs))
    ELSE IF IsDot(Head(segs))
    THEN PathWith(IF Len(segs) = 1 THEN Append(path, <<>>) ELSE path, Tail(segs))
    ELSE PathWith(Append(path, Encoded(Head(segs), PathSet)), Tail(segs))
\* the path that follows an authority: raw is empty or starts with a slash
PathAfterHost(raw, special) ==
    IF raw = <<>> THEN (IF special THEN << <<>> >> ELSE <<>>)
    ELSE PathWith(<<>>, SplitAt(Drop(raw, 1), Slashes(special)))

ForbiddenHost ==
    {" ", "\t", "\n", "#", "/", ":", "<", ">", "?", "@", "[", "\\", "]", "^", "|"}
\* the host parser: Null where it fails
HostOf(raw, special) ==
    IF special
    THEN IF \E i \in 1..Len(raw) : raw[i] \in ForbiddenHost \cup {"%", NBSP} THEN Null
         ELSE ToLower(raw)
    ELSE IF \E i \in 1..Len(raw) : raw[i] \in ForbiddenHost THEN Null
         ELSE Encoded(raw, {NBSP})
\* the digits of a port without leading zeros, 0 as '0'
RECURSIVE NumberOf(_)
NumberOf(digits) ==
    IF Len(digits) > 1 /\ Head(digits) = "0" THEN NumberOf(Tail(digits)) ELSE digits
DigitValue ==
    "0" :> 0 @@ "1" :> 1 @@ "2" :> 2 @@ "3" :> 3 @@ "4" :> 4 @@ "5" :> 5 @@ "6" :> 6 @@
    "7" :> 7 @@ "8" :> 8 @@ "9" :> 9
RECURSIVE ValueOf(_, _)
ValueOf(digits, acc) ==
    IF digits = <<>> THEN acc ELSE ValueOf(Tail(digits), acc * 10 + DigitValue[Head(digits)])
\* the port state: Null where it fails, '' for no port or the scheme's own
PortOf(raw, scheme) ==
    IF \E i \in 1..Len(raw) : raw[i] \notin Digits THEN Null
    ELSE IF raw = <<>> THEN <<>>
    ELSE IF Len(NumberOf(raw)) > 5 \/ ValueOf(NumberOf(raw), 0) > 65535 THEN Null
    ELSE IF scheme \in DOMAIN DefaultPort /\ DefaultPort[scheme] = NumberOf(raw) THEN <<>>
    ELSE NumberOf(raw)
UserinfoFrom(username, password) ==
    IF username = <<>> /\ password = <<>> THEN <<>>
    ELSE username \o NonEmptyPrefixed(":", password) \o <<"@">>
UserinfoAt(cred, colon) ==
    UserinfoFrom(Encoded(Take(cred, colon - 1), UserinfoSet),
                 Encoded(Drop(cred, colon), UserinfoSet))
UserinfoOf(cred) == UserinfoAt(cred, FirstIn(cred, {":"}, 1))
\* the URL of an authority whose host and port are parsed; explicit says that
\* the authority has credentials or a colon
AuthorityUrl(scheme, userinfo, host, port, explicit, rawPath, query, fragment) ==
    IF host = Null \/ port = Null THEN NoUrl
    ELSE IF host = <<>> /\ (IsSpecial(scheme) \/ explicit) THEN NoUrl
    ELSE UrlOf(scheme, FALSE, userinfo, host, port,
               PathAfterHost(rawPath, IsSpecial(scheme)),
               EncodedOrNull(query, QuerySetOf(IsSpecial(scheme))),
               EncodedOrNull(fragment, FragmentSet))
\* hostPort is the authority behind its last '@', colon the index of its first ':'
HostPortUrl(scheme, cred, hostPort, colon, rawPath, query, fragment) ==
    AuthorityUrl(scheme, IF cred = Null THEN <<>> ELSE UserinfoOf(cred),
                 HostOf(Take(hostPort, colon - 1), IsSpecial(scheme)),
                 PortOf(Drop(hostPort, colon), scheme),
                 cred # Null \/ colon <= Len(hostPort), rawPath, query, fragment)
\* at is the index before the last '@' of the authority, -1 when it has none
AuthorityAt(scheme, authority, at, rawPath, query, fragment) ==
    HostPortUrl(scheme, IF at < 0 THEN Null ELSE Take(authority, at),
                Drop(authority, at + 1), FirstIn(Drop(authority, at + 1), {":"}, 1),
                rawPath, query, fragment)
AuthorityEnd(scheme, rest, end, query, fragment) ==
    AuthorityAt(scheme, Take(rest, end - 1), LastIndexOfChar(Take(rest, end - 1), "@"),
                Drop(rest, Min(end - 1, Len(rest))), query, fragment)
\* the authority state and what follows it: rest is the text behind the slashes
FromAuthority(scheme, rest, query, fragment) ==
    AuthorityEnd(scheme, rest, FirstIn(rest, Slashes(IsSpecial(scheme)), 1), query, fragment)
\* the text behind the leading slashes (and, in a special URL, backslashes)
AfterSlashes(r, special) == Drop(r, FirstNotIn(r, Slashes(special), 1) - 1)

\* the relative state: a reference without a scheme of its own (or with the
\* special scheme of its base) against a base that has a host or a path list;
\* q and f are the encoded query and fragment of the reference
RelativeWith(path, query, fragment, q, f, base, slashes) ==
    IF path = <<>>
    THEN UrlOf(base.scheme, FALSE, base.userinfo, base.host, base.port, base.path,
               IF query = Null THEN base.query ELSE q, f)
    ELSE IF Len(path) >= 2 /\ path[1] \in slashes /\ path[2] \in slashes
    THEN FromAuthority(base.scheme,
                       IF IsSpecial(base.scheme) THEN AfterSlashes(path, TRUE)
                       ELSE Drop(path, 2),
                       query, fragment)
    ELSE UrlOf(base.scheme, FALSE, base.userinfo, base.host, base.port,
               IF path[1] \in slashes THEN PathWith(<<>>, SplitAt(Drop(path, 1), slashes))
               ELSE PathWith(ShortenedPath(base.path), SplitAt(path, slashes)),
               q, f)
Relative(path, query, fragment, base) ==
    RelativeWith(path, query, fragment,
                 EncodedOrNull(query, QuerySetOf(IsSpecial(base.scheme))),
                 EncodedOrNull(fragment, FragmentSet), base, Slashes(IsSpecial(base.scheme)))

\* the file states
FileHost(raw) == IF HostOf(raw, TRUE) = <<"l", "o", "c", "a", "l", "h", "o", "s",
        "t">> THEN <<>> ELSE HostOf(raw, TRUE)
FileHostUrl(host, rawPath, q, f) ==
    IF host = Null THEN NoUrl
    ELSE UrlOf(FileScheme, FALSE, <<>>, host, <<>>, PathAfterHost(rawPath, TRUE), q, f)
FileUrlWith(path, query, q, f, base, fileBase, rawHost) ==
    IF Len(path) >= 2 /\ path[1] \in {"/", "\\"} /\ path[2] \in {"/", "\\"}
    THEN FileHostUrl(FileHost(rawHost), Drop(path, 2 + Len(rawHost)), q, f)
    ELSE IF fileBase /\ path = <<>>
    THEN UrlOf(FileScheme, FALSE, <<>>, base.host, <<>>, base.path,
               IF query = Null THEN base.query ELSE q, f)
    ELSE UrlOf(FileScheme, FALSE, <<>>,
               IF fileBase THEN base.host ELSE <<>>, <<>>,
               IF path # <<>> /\ path[1] \in {"/", "\\"}
               THEN PathWith(<<>>, SplitAt(Drop(path, 1), {"/", "\\"}))
               ELSE PathWith(IF fileBase THEN ShortenedPath(base.path) ELSE <<>>,
                             SplitAt(path, {"/", "\\"})),
               q, f)
FileUrl(path, query, fragment, base) ==
    FileUrlWith(path, query, EncodedOrNull(query, QuerySetOf(TRUE)),
                EncodedOrNull(fragment, FragmentSet), base,
                base.ok /\ base.scheme = FileScheme, UpTo(Drop(path, 2), {"/", "\\"}))

\* the states behind the scheme state: own is the scheme the reference starts
\* with, Null where it starts with none, and p the parts of the text behind it
AfterScheme(own, p, base) ==
    IF (IF own = Null THEN base.scheme ELSE own) = FileScheme
    THEN FileUrl(p.path, p.query, p.fragment, base)
    ELSE IF own = Null \/ (IsSpecial(own) /\ base.ok /\ base.scheme = own)
    THEN Relative(p.path, p.query, p.fragment, base)
    ELSE IF IsSpecial(own) \/ StartsWith(p.path, <<"/", "/">>)
    THEN FromAuthority(own,
                       IF IsSpecial(own) THEN AfterSlashes(p.path, TRUE)
                       ELSE Drop(p.path, 2),
                       p.query, p.fragment)
    ELSE UrlOf(own, ~StartsWith(p.path, <<"/">>), <<>>, Null, <<>>,
               IF StartsWith(p.path, <<"/">>)
               THEN PathWith(<<>>, SplitAt(Drop(p.path, 1), {"/"}))
               ELSE p.path,
               EncodedOrNull(p.query, QuerySet), EncodedOrNull(p.fragment, FragmentSet))
\* colon is the index of the colon that ends the scheme of s, 0 when s starts
\* with no scheme: then s needs a base, and of a base with an opaque path it can
\* replace the fragment only
SchemeState(s, colon, base) ==
    IF colon = 0 /\ ~base.ok THEN NoUrl
    ELSE IF colon = 0 /\ base.opaque
    THEN IF s # <<>> /\ s[1] = "#"
         THEN UrlOf(base.scheme, TRUE, <<>>, Null, <<>>, base.path, base.query,
                    Encoded(Drop(s, 1), FragmentSet))
         ELSE NoUrl
    ELSE AfterScheme(IF colon = 0 THEN Null ELSE ToLower(Take(s, colon - 1)),
                     Parts(Drop(s, colon)), base)
\* the basic URL parser on a cleaned input; base is NoUrl where none is given
BasicParse(s, base) == SchemeState(s, SchemeEnd(s), base)

\* new URL(u): ok is FALSE where the constructor throws.
ParseUrl(u) == BasicParse(Cleaned(Str(u)), NoUrl)
UrlAgainst(rel, b) == IF b.ok THEN BasicParse(Cleaned(Str(rel)), b) ELSE NoUrl
HrefOrNull(u) == IF u.ok THEN u.href ELSE Null
\* new URL(rel, base).toString(): Null where the constructor throws.
UrlJoin(rel, base) == HrefOrNull(UrlAgainst(rel, ParseUrl(base)))

\* lines 121-122: the protocol of the base before a protocol-relative reference
WithProtocolOf(base, relativeUrl) == IF base.ok THEN base.protocol \o relativeUrl ELSE Null
\* lines 115-128
resolveUrl(relativeUrl, baseUrl) ==
    IF ~Truthy(relativeUrl) THEN Null
    ELSE IF StartsWith(relativeUrl, <<"/", "/">>)
    THEN WithProtocolOf(ParseUrl(baseUrl), relativeUrl)
    ELSE UrlJoin(relativeUrl, baseUrl)

\* ------------------------------------------------------------------ the document
\* What cheerio answers on one HTML string.  A document is a record
\*   sel     : selector string -> the elements it matches, in document order
\*   ld      : the <script type="application/ld+json"> blocks, in order
\*   rss     : the HTML contains '<rss' or '<feed'
\*   mainRaw : the text of the content container after the denylist removal
\*   len     : htmlContent.length
\* An element is [text, attrs, tr, th, td]; tr marks a table row, th and td the
\* text of its key and value cells.

NoAttrs == [a \in {} |-> <<>>]
El(text) == [text |-> text, attrs |-> NoAttrs, tr |-> FALSE, th |-> <<>>, td |-> <<>>]
ElA(attr, val) == [text |-> <<>>, attrs |-> (attr :> val), tr |-> FALSE, th |-> <<>>, td |-> <<>>]
ElTA(text, attr, val) == [text |-> text, attrs |-> (attr :> val), tr |-> FALSE, th |-> <<>>, td |-> <<>>]

\* $(selector)
Q(doc, selector) == IF selector \in DOMAIN doc.sel THEN doc.sel[selector] ELSE <<>>
\* el.attr(name)
ElAttr(el, name) == IF name \in DOMAIN el.attrs THEN el.attrs[name] ELSE Undef
FirstTextOf(els) == IF els = <<>> THEN <<>> ELSE els[1].text
\* $(selector).first().text(), '' when nothing matches
FirstText(doc, selector) == FirstTextOf(Q(doc, selector))
FirstAttrOf(els, name) == IF els = <<>> THEN Undef ELSE ElAttr(els[1], name)
\* $(selector).first().attr(name)
FirstAttr(doc, selector, name) == FirstAttrOf(Q(doc, selector), name)
RECURSIVE ConcatTexts(_)
ConcatTexts(els) == IF els = <<>> THEN <<>> ELSE els[1].text \o ConcatTexts(Tail(els))
\* $(selector).text(): the texts of all matches, concatenated
AllText(doc, selector) == ConcatTexts(Q(doc, selector))

\* ------------------------------------------------------------------ lib/config.ts

Cfg(selector, attr) == [selector |-> selector, attr |-> attr, isTable |-> FALSE]
CfgTable(selector) == [selector |-> selector, attr |-> "", isTable |-> TRUE]

GENERAL_SELECTORS ==
    [title |-> << Cfg("meta[property=\"og:title\"]", "content"), Cfg("title", ""), Cfg("h1", "") >>,
     metaDescription |-> << Cfg("meta[property=\"og:description\"]", "content"),
                            Cfg("meta[name=\"description\"]", "content") >>,
     ogImage |-> << Cfg("meta[property=\"og:image\"]", "content"),
                    Cfg("meta[property=\"og:image:secure_url\"]", "content") >>,
     canonicalUrl |-> << Cfg("link[rel=\"canonical\"]", "href") >>,
     price |-> << Cfg("[itemprop=\"price\"]", "content"), Cfg("[itemprop=\"price\"]", ""),
                  Cfg(".price", ""), Cfg(".product-price", "") >>,
     stockStatus |-> << Cfg("[itemprop=\"availability\"]", "content"),
                        Cfg("[itemprop=\"availability\"]", ""), Cfg(".stock-status", "") >>,
     productImages |-> << Cfg("img[itemprop=\"image\"]", "src"),
                          Cfg(".product-gallery img", "src"),
                          Cfg("figure.woocommerce-product-gallery__wrapper img", "src"),
                          Cfg(".product-gallery__image img", "src"),
                          Cfg(".product-main-image img", "src"),
                          Cfg("img.wp-post-image", "src"),
                          Cfg("div.product-image-gallery img.fotorama__img", "src"),
                          Cfg("ul.product-images li img", "src"),
                          Cfg("img[itemprop=\"image\"]", "src"),
                          Cfg("script[type=\"application/ld+json\"]", ""),
                          Cfg("img.owl-lazy", "data-src"),
                          Cfg("img.img-auto.owl-lazy", "data-src") >>,
     features |-> << Cfg("[itemprop=\"additionalProperty\"] [itemprop=\"value\"]", ""),
                     CfgTable("table.shop_attributes tr"), Cfg(".product-features li", "") >>,
     productCategory |-> << Cfg("[itemprop=\"category\"]", "content"),
                            Cfg("[itemprop=\"category\"]", ""), Cfg(".posted_in a", "") >>,
     publishDate |-> << Cfg("[itemprop=\"datePublished\"]", "content"),
                        Cfg("meta[property=\"article:published_time\"]", "content"),
                        Cfg("time[datetime]", "datetime") >>,
     blogPageCategories |-> << Cfg("[itemprop=\"articleSection\"]", "content"),
                               Cfg("[rel=\"category tag\"]", "") >>,
     blogContentSample |-> << Cfg("article .entry-content p:first-of-type", ""),
                              Cfg("[itemprop=\"articleBody\"] p:first-of-type", "") >>,
     categoryName |-> << Cfg("h1.category-title", ""), Cfg("h1.page-title", ""), Cfg("h1", "") >>,
     navigationLinksContainers |-> << Cfg("header nav", ""), Cfg("header .menu", ""),
                                      Cfg("[role=\"navigation\"]", ""),
                                      Cfg("#main-navigation", ""), Cfg(".main-menu", "") >>,
     footerLinksContainers |-> << Cfg("footer", ""), Cfg("[role=\"contentinfo\"]", ""),
                                  Cfg(".footer-menu ul", "") >>,
     breadcrumbsContainers |-> << Cfg("[itemtype*=\"BreadcrumbList\"]", ""),
                                  Cfg("nav[aria-label=\"breadcrumb\"] ol", ""),
                                  Cfg(".breadcrumbs, .breadcrumb", "") >>]


\* GENERAL_SELECTORS.<key> || []: scraper-utils.ts also reads the key blogCategories,
\* which the table does not have.
Lookup(table, key) == IF key \in DOMAIN table THEN table[key] ELSE <<>>
General(key) == Lookup(GENERAL_SELECTORS, key)

URL_PATTERNS ==
    [product |->
    << <<"/", "u", "r", "u", "n">>,
       <<"/", "p", "r", "o", "d", "u", "c", "t">>,
       <<"/", "p", "/">>,
       <<"/", "i", "t", "e", "m", "/">>,
       <<"_", "p", "/">>,
       <<"-", "p", "-">>,
       <<"/", "d", "e", "t", "a", "y">>,
       <<"/", "d", "e", "t", "a", "i", "l">>,
       <<"/", "p", "r", "o", "d", "/">>,
       <<"/", "s", "p", "/">>,
       <<"/", "d", "p", "/">>,
       <<"/", "p", "r", "o", "d", "u", "c", "t", "-", "d", "e", "t", "a", "i", "l", "/">>,
       <<"/", "p", "r", "o", "d", "u", "c", "t", "s", "/">>,
       <<"/", "e", "c", "o", "m", "m", "e", "r", "c", "e", "/", "p", "r", "o", "d", "u", "c", "t",
               "/">>,
       <<"/", "p", "r", "o", "d", "u", "c", "t", "-", "p", "a", "g", "e", "/">>,
       <<"/", "s", "h", "o", "p", "/">> >>,
     blog |->
    << <<"/", "b", "l", "o", "g">>,
       <<"/", "h", "a", "b", "e", "r">>,
       <<"/", "a", "r", "t", "i", "c", "l", "e">>,
       <<"/", "p", "o", "s", "t", "/">>,
       <<"/", "y", "a", "z", "i", "/">>,
       <<"/", "i", "c", "e", "r", "i", "k">>,
       <<"/", "n", "e", "w", "s">>,
       <<"/", "s", "t", "o", "r", "i", "e", "s", "/">>,
       <<"/", "m", "a", "k", "a", "l", "e", "/">>,
       <<"/", "b", "l", "o", "g", "-", "d", "e", "t", "a", "i", "l", "/">>,
       <<"/", "e", "n", "t", "r", "y", "/">>,
       <<"/", "g", "u", "n", "d", "e", "m", "/">>,
       <<"/", "d", "u", "y", "u", "r", "u", "/">>,
       <<"/", "c", "o", "n", "t", "e", "n", "t", "/">>,
       <<"/", "b", "l", "o", "g", "s", "/">>,
       <<"/", "a", "r", "t", "i", "c", "l", "e", "s", "/">>,
       <<"/", "p", "o", "s", "t", "s", "/">>,
       <<"/", "n", "e", "w", "s", "-", "i", "t", "e", "m", "/">> >>,
     category |->
    << <<"/", "k", "a", "t", "e", "g", "o", "r", "i">>,
       <<"/", "c", "a", "t", "e", "g", "o", "r", "y">>,
       <<"/", "c", "o", "l", "l", "e", "c", "t", "i", "o", "n", "/">>,
       <<"/", "c", "/">>,
       <<"/", "g", "r", "u", "p", "/">>,
       <<"/", "m", "a", "r", "k", "a", "/">>,
       <<"/", "b", "r", "a", "n", "d", "/">>,
       <<"/", "s", "h", "o", "p", "/">>,
       <<"/", "l", "i", "s", "t", "/">>,
       <<"/", "l", "i", "s", "t", "e", "/">>,
       <<"/", "c", "a", "t", "e", "g", "o", "r", "i", "e", "s", "/">>,
       <<"/", "c", "a", "t", "/">>,
       <<"/", "d", "e", "p", "a", "r", "t", "m", "e", "n", "t", "s", "/">>,
       <<"/", "p", "r", "o", "d", "u", "c", "t", "-", "c", "a", "t", "e", "g", "o", "r", "y", "/">>,
       <<"/", "s", "h", "o", "p", "/", "c", "a", "t", "e", "g", "o", "r", "y", "/">> >>,
     collection |->
    << <<"/", "c", "o", "l", "l", "e", "c", "t", "i", "o", "n">>,
       <<"/", "c", "o", "l", "l", "e", "c", "t", "i", "o", "n", "s", "/">>,
       <<"/", "s", "e", "r", "i", "/">>,
       <<"/", "a", "l", "b", "u", "m", "/">> >>,
     forum |->
    << <<"/", "f", "o", "r", "u", "m">>,
       <<"/", "f", "o", "r", "u", "m", "s", "/">>,
       <<"/", "c", "o", "m", "m", "u", "n", "i", "t", "y", "/">>,
       <<"/", "b", "o", "a", "r", "d", "/">>,
       <<"/", "t", "o", "p", "i", "c", "/">>,
       <<"/", "t", "h", "r", "e", "a", "d", "/">> >>,
     search |->
    << <<"/", "s", "e", "a", "r", "c", "h">>,
       <<"/", "a", "r", "a", "m", "a", "/">>,
       <<"/", "q", "u", "e", "r", "y", "=">>,
       <<"/", "f", "i", "n", "d", "/">>,
       <<"/", "r", "e", "s", "u", "l", "t", "s", "/">> >>,
     error |->
    << <<"/", "4", "0", "4">>,
       <<"/", "e", "r", "r", "o", "r">>,
       <<"/", "n", "o", "t", "-", "f", "o", "u", "n", "d", "/">>,
       <<"/", "s", "a", "y", "f", "a", "-", "b", "u", "l", "u", "n", "a", "m", "a", "d", "i",
               "/">> >>,
     staticPageKeywords |->
    << <<"h", "a", "k", "k", "i", "m", "i", "z", "d", "a">>,
       <<"i", "l", "e", "t", "i", "s", "i", "m">>,
       <<"g", "i", "z", "l", "i", "l", "i", "k">>,
       <<"k", "v", "k", "k">>,
       <<"t", "e", "s", "l", "i", "m", "a", "t">>,
       <<"i", "a", "d", "e">>,
       <<"s", "s", "s">>,
       <<"f", "a", "q">>,
       <<"a", "b", "o", "u", "t">>,
       <<"c", "o", "n", "t", "a", "c", "t">>,
       <<"p", "r", "i", "v", "a", "c", "y">>,
       <<"t", "e", "r", "m", "s">>,
       <<"s", "h", "i", "p", "p", "i", "n", "g">>,
       <<"r", "e", "t", "u", "r", "n", "s">>,
       <<"d", "e", "s", "t", "e", "k">>,
       <<"s", "u", "p", "p", "o", "r", "t">>,
       <<"y", "a", "r", "d", "i", "m">>,
       <<"h", "e", "l", "p">>,
       <<"s", "a", "y", "f", "a">>,
       <<"p", "a", "g", "e">>,
       <<"s", "i", "t", "e", "m", "a", "p">>,
       <<"s", "i", "t", "e", "-", "m", "a", "p">>,
       <<"a", "b", "o", "u", "t", "-", "u", "s">>,
       <<"c", "o", "n", "t", "a", "c", "t", "-", "u", "s">>,
       <<"p", "a", "g", "e", "s">>,
       <<"k", "u", "r", "u", "m", "s", "a", "l">> >>]

\* The selector profile store (prisma.siteConfiguration): hostname -> selectorsJson.
\* rejects is the outcome of the read: findUnique rejected, and the catch branch
\* answers null whatever the table holds.
NoSiteSelectors == [found |-> FALSE, selectors |-> [k \in {} |-> <<>>]]
getStoredSiteSelectors(st, hostname, rejects) ==
    IF ~rejects /\ hostname \in DOMAIN st THEN [found |-> TRUE, selectors |-> st[hostname]]
    ELSE NoSiteSelectors
\* siteSelectors?.<key> || []
Site(siteSelectors, key) ==
    IF siteSelectors.found /\ key \in DOMAIN siteSelectors.selectors
    THEN siteSelectors.selectors[key] ELSE <<>>


\* ------------------------------------------------------------------ optional lists
\* An array|null|undefined value: k is "list", "null" or "undefined".

L(v) == [k |-> "list", v |-> v]
LNull == [k |-> "null", v |-> <<>>]
LUndef == [k |-> "undefined", v |-> <<>>]
Map(s, F(_)) == [i \in 1..Len(s) |-> F(s[i])]
\* list.length > 0 ? list : null
OrNull(list) == IF list = <<>> THEN LNull ELSE L(list)
\* list.length > 0 ? list : undefined
OrUndef(list) == IF list = <<>> THEN LUndef ELSE L(list)
\* !list || list.length === 0
NoItems(list) == list.k # "list" \/ list.v = <<>>

\* ------------------------------------------------------------------ selector extraction

\* find(inner) below the elements $(container) matches
Find(doc, container, inner) == Q(doc, container \o " >> " \o inner)

\* the first entry that is not null, null when there is none
FirstNonNull(texts) ==
    IF \A i \in 1..Len(texts) : texts[i] = Null THEN Null
    ELSE texts[CHOOSE i \in 1..Len(texts) :
                  texts[i] # Null /\ \A j \in 1..(i - 1) : texts[j] = Null]
\* the first entry that is not empty, empty when there is none
FirstNonEmpty(groups) ==
    IF \A i \in 1..Len(groups) : groups[i] = <<>> THEN <<>>
    ELSE groups[CHOOSE i \in 1..Len(groups) :
                   groups[i] # <<>> /\ \A j \in 1..(i - 1) : groups[j] = <<>>]

ElementText(els, selector, attr) ==
    IF selector = "" \/ els = <<>> THEN Null
    ELSE sanitizeText(IF attr # "" THEN ElAttr(els[1], attr) ELSE els[1].text)
ConfigText(doc, config, targetAttribute) ==
    ElementText(Q(doc, config.selector), config.selector,
                IF targetAttribute # "" THEN targetAttribute ELSE config.attr)
ConfigTexts(doc, configsToTry, targetAttribute) ==
    [i \in 1..Len(configsToTry) |-> ConfigText(doc, configsToTry[i], targetAttribute)]
getElementText(doc, primaryConfigs, fallbackConfigs, targetAttribute) ==
    FirstNonNull(ConfigTexts(doc, primaryConfigs \o fallbackConfigs, targetAttribute))

\* thText.replace(/:$/, '')
StripColon(t) == IF t # <<>> /\ t[Len(t)] = ":" THEN Take(t, Len(t) - 1) ELSE t

TableRowText(thText, tdText) ==
    IF thText # Null /\ tdText # Null THEN StripColon(thText) \o <<":", " ">> \o tdText
    ELSE IF tdText # Null THEN tdText
    ELSE IF thText # Null THEN thText ELSE Null
ElementValue(config, el) ==
    IF config.attr # "" THEN ElAttr(el, config.attr)
    ELSE IF el.tr /\ config.isTable THEN TableRowText(sanitizeText(el.th), sanitizeText(el.td))
    ELSE el.text
ElementTexts(config, els) ==
    SelectSeq([i \in 1..Len(els) |-> sanitizeText(ElementValue(config, els[i]))],
              LAMBDA v : v # Null)
\* results accumulate over the groups; with more than one group the loop stops
\* after the first group that left results non-empty
getAllElementTexts(doc, selectors) ==
    OrNull(FirstNonEmpty([i \in 1..Len(selectors) |->
                             ElementTexts(selectors[i], Q(doc, selectors[i].selector))]))

HasExtension(low) ==
    \E e \in { <<".", "j", "p", "e", "g">>, <<".", "j", "p", "g">>, <<".", "g", "i", "f">>, <<".",
            "p", "n", "g">>, <<".", "w", "e", "b", "p">>, <<".", "a", "v", "i", "f">> } :
        EndsWith(low, e) \/ Includes(low, e \o <<"?">>)
\* absSrc.match(/\.(jpeg|jpg|gif|png|webp|avif)(\?|$)/i)
HasImageExtension(src) == HasExtension(ToLower(src))

\* Remove from a sequence every element whose key occurred earlier.
FirstOfEachKey(seq, Key(_)) ==
    Pick(seq, SelectSeq(Indices(seq), LAMBDA i : \A j \in 1..(i - 1) : Key(seq[j]) # Key(seq[i])))
\* [...new Set(list)]
Distinct(seq) == Pick(seq, SelectSeq(Indices(seq), LAMBDA i : \A j \in 1..(i - 1) : seq[j] # seq[i]))

\* parseInt(text, radix), radix 0 where the call gives none: leading whitespace,
\* a sign, 0x before a hexadecimal number, then the longest prefix of digits;
\* NaN, for which an integer no text of the model denotes stands, when there is
\* no digit.  Numbers stay below 2^31.
NaN == 0 - 2147483647
HexValue ==
    DigitValue @@ "a" :> 10 @@ "b" :> 11 @@ "c" :> 12 @@ "d" :> 13 @@ "e" :> 14 @@
    "f" :> 15 @@ "A" :> 10 @@ "B" :> 11 @@ "C" :> 12 @@ "D" :> 13 @@ "E" :> 14 @@ "F" :> 15
RECURSIVE Numeral(_, _, _)
Numeral(digits, radix, acc) ==
    IF digits = <<>> THEN acc
    ELSE Numeral(Tail(digits), radix, acc * radix + HexValue[Head(digits)])
DigitsOf(radix) == {c \in DOMAIN HexValue : HexValue[c] < radix}
NumeralOrNaN(digits, radix) == IF digits = <<>> THEN NaN ELSE Numeral(digits, radix, 0)
PrefixNumber(t, radix) == NumeralOrNaN(Take(t, FirstNotIn(t, DigitsOf(radix), 1) - 1), radix)
Unsigned(t, radix) ==
    IF radix \in {0, 16} /\ (StartsWith(t, <<"0", "x">>) \/ StartsWith(t, <<"0", "X">>))
    THEN PrefixNumber(Drop(t, 2), 16)
    ELSE PrefixNumber(t, IF radix = 0 THEN 10 ELSE radix)
Negated(n) == IF n = NaN THEN NaN ELSE 0 - n
Signed(t, radix) ==
    IF StartsWith(t, <<"-">>) THEN Negated(Unsigned(Drop(t, 1), radix))
    ELSE IF StartsWith(t, <<"+">>) THEN Unsigned(Drop(t, 1), radix)
    ELSE Unsigned(t, radix)
WsChars == {" ", "\t", "\n", NBSP}
parseInt(text, radix) == Signed(Drop(Str(text), FirstNotIn(Str(text), WsChars, 1) - 1), radix)

\* item.attr('data-srcset')?.split(',')[0].trim().split(' ')[0]
FirstCandidate(srcset) ==
    IF srcset = Undef THEN Undef ELSE UpTo(Trim(UpTo(srcset, {","})), {" "})
\* lines 187-191
RawImageSrc(item, srcAttrVal) ==
    Or(IF srcAttrVal # "" THEN ElAttr(item, srcAttrVal) ELSE Null,
       Or(ElAttr(item, "src"), Or(ElAttr(item, "data-src"),
          Or(ElAttr(item, "data-lazy-src"),
             Or(ElAttr(item, "data-original"), FirstCandidate(ElAttr(item, "data-srcset")))))))
\* item.is(tag): the element's tag name is its attribute tagName
Is(item, tag) == ToLower(ElAttr(item, "tagName")) = tag
\* the digits that follow name and any whitespace at index from of style
StyleDigits(style, from) ==
    Take(Drop(style, FirstNotIn(style, WsChars, from) - 1),
         FirstNotIn(Drop(style, FirstNotIn(style, WsChars, from) - 1), Digits, 1) - 1)
StyleHits(style, name) ==
    {i \in 1..(Len(style) - Len(name) + 1) :
        /\ SubSeq(ToLower(style), i, i + Len(name) - 1) = name
        /\ StyleDigits(style, i + Len(name)) # <<>>}
\* style.match(/name\s*(\d+)(px)?/i)[1] at the leftmost match, Null without one
StyleMatch(style, name) ==
    IF StyleHits(style, name) = {} THEN Null
    ELSE StyleDigits(style, (CHOOSE i \in StyleHits(style, name) :
                                \A j \in StyleHits(style, name) : i <= j) + Len(name))
\* lines 212-224: width or height, from the attribute or else from the style of
\* an img or a element
Dimension(item, name, property) ==
    Or(sanitizeText(ElAttr(item, name)),
       IF (Is(item, <<"i", "m", "g">>) \/ Is(item, <<"a">>)) /\ Truthy(ElAttr(item, "style"))
       THEN StyleMatch(ElAttr(item, "style"), property)
       ELSE Null)
ImageRecord(item, absSrc, alt) ==
    [src |-> absSrc,
     alt |-> Or(alt, Or(sanitizeText(ElAttr(item, "title")), <<"I", "m", "a", "g", "e">>)),
     width |-> Or(Dimension(item, "width", <<"w", "i", "d", "t", "h", ":">>), Null),
     height |-> Or(Dimension(item, "height", <<"h", "e", "i", "g", "h", "t", ":">>), Null),
     hasAlt |-> Truthy(alt)]
ImageCandidates(els, srcAttrVal, pageUrl) ==
    [i \in 1..Len(els) |->
        ImageRecord(els[i], resolveUrl(RawImageSrc(els[i], srcAttrVal), pageUrl),
                    sanitizeText(ElAttr(els[i], "alt")))]
RECURSIVE ImagesFromConfigs(_, _, _)
ImagesFromConfigs(doc, configs, pageUrl) ==
    IF configs = <<>> THEN <<>>
    ELSE ImageCandidates(Q(doc, configs[1].selector), configs[1].attr, pageUrl)
         \o ImagesFromConfigs(doc, Tail(configs), pageUrl)
SrcOf(img) == img.src
AcceptedImages(candidates) ==
    FirstOfEachKey(SelectSeq(candidates, LAMBDA img : /\ Truthy(img.src)
                                                      /\ HasImageExtension(img.src)
                                                      /\ Len(img.src) >= 10),
                   SrcOf)
MainOrFallbackImages(main, doc, pageUrl, fallbackSelector) ==
    IF main = <<>> /\ fallbackSelector # ""
    THEN AcceptedImages(ImageCandidates(Q(doc, fallbackSelector), "", pageUrl))
    ELSE main
extractImagesFromSelectors(doc, pageUrl, mainSelectorConfigs, fallbackSelector) ==
    MainOrFallbackImages(AcceptedImages(ImagesFromConfigs(doc, mainSelectorConfigs, pageUrl)),
                         doc, pageUrl, fallbackSelector)

\* a link whose href the code skips
SkippedHref(rawHref) ==
    \/ ~Truthy(rawHref)
    \/ StartsWith(rawHref, <<"#">>)
    \/ StartsWith(rawHref, <<"j", "a", "v", "a", "s", "c", "r", "i", "p", "t", ":">>)
    \/ StartsWith(rawHref, <<"m", "a", "i", "l", "t", "o", ":">>)
    \/ StartsWith(rawHref, <<"t", "e", "l", ":">>)

\* pageUrl.split('/').pop()
LastSegment(u) == Drop(u, LastIndexOfChar(u, "/") + 1)

\* The links below the given anchors: the body of the .each() of extractPageLinks
\* and extractSpecificLinks.  Called only with a page URL that parses.  The alt
\* of the first img inside an anchor is the anchor's attribute imgAlt.
\* An anchor with its href resolved, and what new NodeURL makes of that
LinkCandidate(a, absoluteUrl) ==
    [skipped |-> SkippedHref(ElAttr(a, "href")), anchor |-> a, href |-> absoluteUrl,
     url |-> IF Truthy(absoluteUrl) THEN ParseUrl(absoluteUrl) ELSE NoUrl]
LinkCandidates(anchors, pageUrl) ==
    [i \in 1..Len(anchors) |->
        LinkCandidate(anchors[i], resolveUrl(ElAttr(anchors[i], "href"), pageUrl))]
LinkItem(c, currentHostname) ==
    [text |-> Or(sanitizeText(c.anchor.text),
              Or(sanitizeText(ElAttr(c.anchor, "title")),
              Or(sanitizeText(ElAttr(c.anchor, "imgAlt")),
                 Or(LastSegment(c.href), <<"L", "i", "n", "k">>)))),
     href |-> c.href,
     isExternal |-> c.url.hostname # currentHostname]
HrefOf(link) == link.href
\* the anchors that are not skipped, the first of each href, and of these the ones
\* whose href new NodeURL accepts
LinksOf(anchors, pageUrl) ==
    LET currentHostname == ParseUrl(pageUrl).hostname
    IN  Map(SelectSeq(FirstOfEachKey(SelectSeq(LinkCandidates(anchors, pageUrl),
                                               LAMBDA c : /\ ~c.skipped
                                                          /\ Truthy(c.href)
                                                          /\ c.href # pageUrl),
                                     HrefOf),
                      LAMBDA c : c.url.ok),
            LAMBDA c : LinkItem(c, currentHostname))

RECURSIVE AnchorsIn(_, _)
AnchorsIn(doc, configs) ==
    IF configs = <<>> THEN <<>>
    ELSE Find(doc, configs[1].selector, "a[href]") \o AnchorsIn(doc, Tail(configs))

\* new NodeURL(pageUrl), the first statement of either function, has no try around it
LinksThrow(pageUrl) == ~ParseUrl(pageUrl).ok
\* threw: the function threw
extractSpecificLinks(doc, containerSelectorConfigs, pageUrl) ==
    IF LinksThrow(pageUrl) THEN [threw |-> TRUE, links |-> <<>>]
    ELSE [threw |-> FALSE, links |-> LinksOf(AnchorsIn(doc, containerSelectorConfigs), pageUrl)]

PageLinks(all) ==
    [threw |-> FALSE, allLinks |-> all,
     internalLinks |-> SelectSeq(all, LAMBDA l : ~l.isExternal),
     externalLinks |-> SelectSeq(all, LAMBDA l : l.isExternal)]
extractPageLinks(doc, pageUrl) ==
    IF LinksThrow(pageUrl)
    THEN [threw |-> TRUE, allLinks |-> <<>>, internalLinks |-> <<>>, externalLinks |-> <<>>]
    ELSE PageLinks(LinksOf(Q(doc, "a[href]"), pageUrl))

Heading(level, text) == [level |-> level, text |-> text]
Headings(els) ==
    SelectSeq([i \in 1..Len(els) |-> Heading(parseInt(Drop(ElAttr(els[i], "tagName"), 1), 10),
                                             sanitizeText(els[i].text))],
              LAMBDA h : h.text # Null /\ h.level # NaN /\ h.level >= 1 /\ h.level <= 6)
extractHeadingsCheerio(doc) == OrNull(Headings(Q(doc, "h1, h2, h3, h4, h5, h6")))

IsHome(low) == low = <<"a", "n", "a", "s", "a", "y", "f", "a">> \/ low = <<"h", "o", "m", "e">>
IsHomeLabel(text) == IsHome(ToLower(text))

\* A crumb element carries the anchor's href as attribute href (absent when it has
\* no anchor), and, for an [itemprop="itemListElement"] element, the attribute
\* itemprop and optionally position (the content of its position meta).
Crumb(el, i, href, posAttr) ==
    [text |-> sanitizeText(el.text),
     href |-> IF href = Null THEN Undef ELSE href,
     position |-> IF "itemprop" \in DOMAIN el.attrs /\ Truthy(posAttr)
                  THEN parseInt(posAttr, 0) ELSE i]
Crumbs(els, pageUrl) ==
    SelectSeq([i \in 1..Len(els) |->
                  Crumb(els[i], i, resolveUrl(ElAttr(els[i], "href"), pageUrl),
                        ElAttr(els[i], "position"))],
              LAMBDA it : it.text # Null)
CrumbGroups(doc, pageUrl, containers) ==
    [c \in 1..Len(containers) |->
        Crumbs(Find(doc, containers[c].selector, "li, [itemprop=\"itemListElement\"]"), pageUrl)]
Renumbered(items) == [i \in 1..Len(items) |-> [items[i] EXCEPT !.position = i]]
WithHomeCrumb(raw, pageUrl) ==
    IF raw # <<>> /\ ~IsHomeLabel(raw[1].text)
    THEN Renumbered(<< [text |-> <<"A", "n", "a", "s", "a", "y", "f", "a">>,
                        href |-> Or(resolveUrl(<<"/">>, pageUrl), pageUrl),
                        position |-> 0] >> \o raw)
    ELSE raw
\* new Map(items.map(item => [key, item])): a later item with the same key
\* takes the value, at the position of the key's first occurrence
CrumbKey(it) == it.text \o <<"-">> \o Str(it.href)
LastWithKey(items, i) ==
    CHOOSE j \in i..Len(items) :
        /\ CrumbKey(items[j]) = CrumbKey(items[i])
        /\ \A m \in (j + 1)..Len(items) : CrumbKey(items[m]) # CrumbKey(items[i])
LastOfEach(items, firsts) == [k \in 1..Len(firsts) |-> items[LastWithKey(items, firsts[k])]]
UniqueCrumbs(items) ==
    LastOfEach(items, SelectSeq(Indices(items),
                   LAMBDA i : \A j \in 1..(i - 1) : CrumbKey(items[j]) # CrumbKey(items[i])))
\* (a, b) => a.position - b.position as the sort reads it: NaN counts as 0
Order(a, b) == IF a.position = NaN \/ b.position = NaN THEN 0 ELSE a.position - b.position
\* .sort(...) as V8 runs it on an array of fewer than 64 items: the run at the
\* head of the array is found, and reversed when it descends, then every later
\* item is put in by binary insertion.  With positions that are all numbers
\* this is a stable sort; with a NaN among them it is this order and no other.
RECURSIVE RunEnd(_, _, _)
RunEnd(arr, descending, idx) ==
    IF idx > Len(arr) THEN Len(arr)
    ELSE IF descending = (Order(arr[idx], arr[idx - 1]) < 0)
    THEN RunEnd(arr, descending, idx + 1)
    ELSE idx - 1
Descends(arr) == Len(arr) >= 2 /\ Order(arr[2], arr[1]) < 0
RunLength(arr) == IF Len(arr) < 2 THEN Len(arr) ELSE RunEnd(arr, Descends(arr), 3)
Reversed(arr) == [i \in 1..Len(arr) |-> arr[Len(arr) + 1 - i]]
WithRun(arr) ==
    IF Descends(arr)
    THEN Reversed(Take(arr, RunLength(arr))) \o Drop(arr, RunLength(arr))
    ELSE arr
\* the index, counted from 0, at which pivot goes among arr[left..right-1]
RECURSIVE InsertionPoint(_, _, _, _)
InsertionPoint(arr, pivot, left, right) ==
    IF left >= right THEN left
    ELSE IF Order(pivot, arr[left + ((right - left) \div 2) + 1]) < 0
    THEN InsertionPoint(arr, pivot, left, left + ((right - left) \div 2))
    ELSE InsertionPoint(arr, pivot, left + ((right - left) \div 2) + 1, right)
Inserted(arr, start, at) ==
    Take(arr, at) \o <<arr[start + 1]>> \o SubSeq(arr, at + 1, start) \o Drop(arr, start + 1)
RECURSIVE BinaryInsertionSort(_, _)
BinaryInsertionSort(arr, start) ==
    IF start >= Len(arr) THEN arr
    ELSE BinaryInsertionSort(
             Inserted(arr, start, InsertionPoint(arr, arr[start + 1], 0, start)), start + 1)
SortedByPosition(unique) == BinaryInsertionSort(WithRun(unique), RunLength(unique))
extractBreadcrumbsCheerio(doc, pageUrl) ==
    OrNull(SortedByPosition(UniqueCrumbs(WithHomeCrumb(
        FirstNonEmpty(CrumbGroups(doc, pageUrl, GENERAL_SELECTORS.breadcrumbsContainers)),
        pageUrl))))

\* ------------------------------------------------------------------ JSON-LD
\* A parsed JSON-LD item.  types is '@type' as a list; offers is the offers value
\* (k = "object" for a single offer, "list" for an array, "undefined" when absent);
\* articleBody may be NumberVal, a JSON value that is not a string.

NumberVal == <<"<number>">>
NoOffers == [k |-> "undefined", v |-> <<>>]
\* author: an object with a name, a list of such objects, or nothing
NoAuthor == [k |-> "undefined", v |-> <<>>]
AuthorObject(name) == [k |-> "object", v |-> <<name>>]
AuthorList(names) == [k |-> "list", v |-> names]
\* keywords: a list of texts, one text, or nothing
KeywordsText(text) == [k |-> "text", v |-> text]
\* An item of a JSON-LD block. types holds the names of @type, and typeIsArray tells
\* whether @type is an array or one string.
NoItem == [present |-> FALSE, types |-> <<>>, typeIsArray |-> FALSE, name |-> Undef,
           headline |-> Undef,
           description |-> Undef, image |-> <<>>, offers |-> NoOffers, category |-> Undef,
           brandName |-> Undef, additionalProperty |-> LUndef, sku |-> Undef, mpn |-> Undef,
           gtin13 |-> Undef, gtin14 |-> Undef, gtin8 |-> Undef, productID |-> Undef,
           datePublished |-> Undef, articleSection |-> LUndef, articleBody |-> Undef,
           author |-> NoAuthor, keywords |-> LUndef]
\* author?.name || author[0]?.name
AuthorName(author) ==
    IF author.k = "object" /\ Truthy(author.v[1]) THEN author.v[1]
    ELSE IF author.k = "list" /\ author.v # <<>> THEN author.v[1]
    ELSE Undef
Offer(price, priceCurrency, availability) ==
    [price |-> price, lowPrice |-> Undef, highPrice |-> Undef,
     priceCurrency |-> priceCurrency, availability |-> availability]

\* The items of all blocks that JSON.parse accepts, in document order.
RECURSIVE LdItems(_)
LdItems(blocks) ==
    IF blocks = <<>> THEN <<>>
    ELSE (IF blocks[1].ok THEN blocks[1].items ELSE <<>>) \o LdItems(Tail(blocks))

HasType(item, names) == \E i \in 1..Len(item.types) : ToLower(item.types[i]) \in names
FirstOr(hits, none) == IF hits = <<>> THEN none ELSE hits[1]
FirstItemOfType(doc, names) ==
    FirstOr(SelectSeq(LdItems(doc.ld), LAMBDA item : HasType(item, names)), NoItem)
mainProductSchema(doc) == FirstItemOfType(doc, { <<"p", "r", "o", "d", "u", "c", "t">> })
mainBlogSchema(doc) == FirstItemOfType(doc, { <<"b", "l", "o", "g", "p", "o", "s", "t", "i", "n",
        "g">>, <<"a", "r", "t", "i", "c", "l", "e">>, <<"n", "e", "w", "s", "a", "r", "t", "i",
                "c", "l", "e">> })
mainCategorySchema(doc) ==
    FirstItemOfType(doc, { <<"c", "o", "l", "l", "e", "c", "t", "i", "o", "n", "p", "a", "g",
            "e">>, <<"i", "t", "e", "m", "l", "i", "s", "t">>, <<"p", "r", "o", "d", "u", "c",
                    "t", "g", "r", "o", "u", "p">>, <<"c", "a", "t", "e", "g", "o", "r", "y", "c",
                            "o", "d", "e", "l", "i", "s", "t">> })

\* ------------------------------------------------------------------ price text

IsPriceClass(c) == c \in Digits \/ c \in {",", "."} \/ IsWs(c)
\* [^\d,.\s](?:\s*\d|\d) at index i: the index of its last character, 0 if no match
SymbolDigitEnd(s, i) ==
    IF i >= 1 /\ i <= Len(s) /\ ~IsPriceClass(s[i])
       /\ \E j \in (i + 1)..Len(s) : s[j] \in Digits /\ \A m \in (i + 1)..(j - 1) : IsWs(s[m])
    THEN CHOOSE j \in (i + 1)..Len(s) : s[j] \in Digits /\ \A m \in (i + 1)..(j - 1) : IsWs(s[m])
    ELSE 0
\* [\d,.\s]+ at index i, greedy: the index of its last character, 0 if no match
ClassRunEnd(s, i) ==
    IF i >= 1 /\ i <= Len(s) /\ IsPriceClass(s[i])
    THEN CHOOSE k \in i..Len(s) :
            /\ \A m \in i..k : IsPriceClass(s[m])
            /\ (k = Len(s) \/ ~IsPriceClass(s[k + 1]))
    ELSE 0
\* group 1 matches at i and group 2 right after it
RunAfter(s, symbolEnd) == symbolEnd > 0 /\ ClassRunEnd(s, symbolEnd + 1) > 0
WithGroup1(s, i) == RunAfter(s, SymbolDigitEnd(s, i))
MatchStarts(s, i) == WithGroup1(s, i) \/ IsPriceClass(s[i])
MatchGroups(s, i0, g2from, g2to, g3to) ==
    [matched |-> TRUE,
     g1 |-> IF g2from > i0 THEN SubSeq(s, i0, g2from - 1) ELSE Undef,
     g2 |-> SubSeq(s, g2from, g2to),
     g3 |-> IF g3to > 0 THEN SubSeq(s, g2to + 1, g3to) ELSE Undef]
MatchFromGroup2(s, i0, g2from, g2to) ==
    MatchGroups(s, i0, g2from, g2to, SymbolDigitEnd(s, g2to + 1))
MatchFrom(s, i0, g2from) == MatchFromGroup2(s, i0, g2from, ClassRunEnd(s, g2from))
MatchAt(s, i0) ==
    MatchFrom(s, i0, IF WithGroup1(s, i0) THEN SymbolDigitEnd(s, i0) + 1 ELSE i0)
\* price.match(/([^\d,.\s](?:\s*\d|\d))?([\d,.\s]+)([^\d,.\s](?:\s*\d|\d))?/)
PriceMatch(s) ==
    IF ~\E i \in 1..Len(s) : MatchStarts(s, i)
    THEN [matched |-> FALSE, g1 |-> Undef, g2 |-> Undef, g3 |-> Undef]
    ELSE MatchAt(s, CHOOSE i \in 1..Len(s) :
                       MatchStarts(s, i) /\ \A j \in 1..(i - 1) : ~MatchStarts(s, j))

\* s.replace(/\.(?=\d{3}(?:,|$))/g, '')
RemoveThousandsDots(s) ==
    Pick(s, SelectSeq(Indices(s),
                      LAMBDA i : ~(/\ s[i] = "."
                                   /\ i + 3 <= Len(s)
                                   /\ \A m \in (i + 1)..(i + 3) : s[m] \in Digits
                                   /\ (i + 3 = Len(s) \/ s[i + 4] = ","))))

\* /[$€₺£¥]/.test(s)
HasCurrencySign(s) == \E i \in 1..Len(s) : s[i] \in {"$", "€", "₺", "£", "¥"}

\* s.replace(/[^\d,.]/g, '')
OnlyPriceChars(s) == SelectSeq(s, LAMBDA c : c \in Digits \/ c \in {",", "."})

\* the number text with a decimal point
DecimalPoint(s) == ReplaceFirstChar(RemoveThousandsDots(s), ",", ".")
PriceAndSymbol(g2, symbol1, symbol3) ==
    [price |-> IF g2 = Null THEN Undef ELSE DecimalPoint(g2),
     currencySymbol |-> IF Truthy(symbol1) /\ HasCurrencySign(symbol1) THEN symbol1
                        ELSE IF Truthy(symbol3) /\ HasCurrencySign(symbol3) THEN symbol3
                        ELSE Or(symbol1, symbol3),
     setSymbol |-> TRUE]
SplitMatched(raw, m) ==
    IF m.matched
    THEN PriceAndSymbol(sanitizeText(m.g2), sanitizeText(m.g1), sanitizeText(m.g3))
    ELSE [price |-> DecimalPoint(OnlyPriceChars(raw)), currencySymbol |-> Undef,
          setSymbol |-> FALSE]
\* lines 909-921: the selector-matched price text split into price and symbol
SplitPrice(raw) == SplitMatched(raw, PriceMatch(raw))

\* ------------------------------------------------------------------ extractBaseDataFromHtml
\* The record fields are those of ScrapedPageData that the handler reads back;
\* keywords, htmlLang and metaRobots, which nothing else depends on, are left out.
\* pageTypeGuess is a plain string, every other text a character sequence.

InitialData(pageUrl) ==
    [url |-> pageUrl, siteSelectorsUsed |-> FALSE,
     title |-> Undef, metaDescription |-> Undef,
     ogType |-> Undef, ogTitle |-> Undef, ogDescription |-> Undef, ogImage |-> Undef,
     canonicalUrl |-> Undef,
     jsonLdData |-> L(<<>>), schemaOrgTypes |-> L(<<>>),
     pageTypeGuess |-> "undefined",
     price |-> Undef, currencySymbol |-> Undef, currencyCode |-> Undef,
     stockStatus |-> Undef, category |-> Undef, features |-> L(<<>>),
     aiProductSku |-> Undef, aiProductBrand |-> Undef,
     publishDate |-> Undef, date |-> Undef, blogCategories |-> L(<<>>),
     aiBlogAuthor |-> Undef, aiBlogTags |-> LUndef, blogContentSample |-> Undef,
     images |-> L(<<>>), headings |-> L(<<>>), breadcrumbs |-> L(<<>>),
     navigationLinks |-> L(<<>>), footerLinks |-> L(<<>>),
     allLinks |-> L(<<>>), internalLinks |-> L(<<>>), externalLinks |-> L(<<>>),
     mainTextContent |-> Undef,
     error |-> Undef, message |-> Undef,
     \* fields of ScrapedPageData that the assembler leaves unset
     author |-> Undef, blogTags |-> LUndef, productCategory |-> Undef,
     aiCategoryDescription |-> Undef]

\* the title the code falls back to ('Baslik Yok' with s-cedilla and dotless i)
NoTitle == <<"B", "a", "s", "l", "i", "k", " ", "Y", "o", "k">>

\* lines 688-692: no profile is looked up for a URL that does not parse or that
\* has no host name
SiteSelectorsAt(u, st, rejects) ==
    IF u.ok /\ u.hostname # <<>> THEN getStoredSiteSelectors(st, u.hostname, rejects)
    ELSE NoSiteSelectors
SiteSelectorsFor(pageUrl, st, rejects) == SiteSelectorsAt(ParseUrl(pageUrl), st, rejects)

\* 1. basic metadata (lines 688-721)
TitleSlug(pageUrl) == ReplaceAllChar(ReplaceAllChar(LastSegment(pageUrl), "-", " "), "_", " ")
\* lines 704-708: a title that is the URL or names the host gives way to the h1
PageTitle(doc, pageUrl, u, title, h1) ==
    IF u.ok /\ (title = pageUrl \/ Includes(ToLower(title), ToLower(u.hostname)))
    THEN Or(h1, Or(sanitizeText(AllText(doc, "title")), NoTitle))
    ELSE title
TitleWithH1(doc, pageUrl, ss, h1) ==
    PageTitle(doc, pageUrl, ParseUrl(pageUrl),
              Or(getElementText(doc, Site(ss, "title"), General("title"), ""),
                 Or(h1, Or(TitleSlug(pageUrl), NoTitle))),
              h1)
Metadata(doc, pageUrl, ss, title, metaDescription) ==
    [InitialData(pageUrl) EXCEPT
       !.siteSelectorsUsed = ss.found,
       !.title = title,
       !.metaDescription = metaDescription,
       !.ogType = sanitizeText(FirstAttr(doc, "meta[property=\"og:type\"]", "content")),
       !.ogTitle = Or(sanitizeText(FirstAttr(doc, "meta[property=\"og:title\"]", "content")),
                      title),
       !.ogDescription =
           Or(sanitizeText(FirstAttr(doc, "meta[property=\"og:description\"]", "content")),
              metaDescription),
       !.ogImage = resolveUrl(getElementText(doc, Site(ss, "ogImage"), General("ogImage"),
                                             "content"), pageUrl),
       !.canonicalUrl = resolveUrl(getElementText(doc, Site(ss, "canonicalUrl"),
                                                  General("canonicalUrl"), "href"), pageUrl)]
MetadataWith(doc, pageUrl, ss) ==
    Metadata(doc, pageUrl, ss,
             TitleWithH1(doc, pageUrl, ss, sanitizeText(FirstText(doc, "h1"))),
             getElementText(doc, Site(ss, "metaDescription"), General("metaDescription"), ""))
Step1Metadata(doc, pageUrl, siteSelectors) == MetadataWith(doc, pageUrl, siteSelectors)

\* 2. JSON-LD (lines 723-749)
RECURSIVE TypesOf(_)
TypesOf(items) ==
    IF items = <<>> THEN <<>> ELSE Map(items[1].types, ToLower) \o TypesOf(Tail(items))
WithJsonLd(data, items, types) ==
    [data EXCEPT
       !.jsonLdData = OrNull(items),
       !.schemaOrgTypes = IF types = <<>> THEN LUndef ELSE L(Distinct(types))]
JsonLdOf(data, items) == WithJsonLd(data, items, TypesOf(items))
Step2JsonLd(doc, data) == JsonLdOf(data, LdItems(doc.ld))

AnyMatch(doc, configs) == \E i \in 1..Len(configs) : Q(doc, configs[i].selector) # <<>>
AnyIn(text, patterns) == \E i \in 1..Len(patterns) : Includes(text, patterns[i])

\* lines 753-755
TypeFromSchema(doc) ==
    IF mainProductSchema(doc).present THEN "product"
    ELSE IF mainBlogSchema(doc).present THEN "blog"
    ELSE IF mainCategorySchema(doc).present THEN "category"
    ELSE "unknown"

\* lines 757-761
TypeOfOg(ogTypeLower) ==
    IF Includes(ogTypeLower, <<"p", "r", "o", "d", "u", "c", "t">>) THEN "product"
    ELSE IF Includes(ogTypeLower, <<"a", "r", "t", "i", "c", "l",
            "e">>) \/ Includes(ogTypeLower, <<"b", "l", "o", "g">>)
            \/ Includes(ogTypeLower, <<"n", "e", "w", "s">>) THEN "blog"
    ELSE "unknown"
TypeFromOgType(data) ==
    IF ~Truthy(data.ogType) THEN "unknown" ELSE TypeOfOg(ToLower(data.ogType))

\* lines 764-786
TypeFromDom(doc, ss) ==
    IF /\ AnyMatch(doc, Site(ss, "price") \o General("price"))
       /\ \/ Q(doc, "form[action*=\"cart\"] button, button[name*=\"add-to-cart\"], .add-to-cart-button, input[name*=\"add-to-cart\"]") # <<>>
          \/ AnyMatch(doc, Site(ss, "stockStatus") \o General("stockStatus"))
    THEN "product"
    ELSE IF \/ Len(Q(doc, ".product-item, .product-list-item, .prd-list-item, [class*=\"product_item\"]")) > 2
            \/ Q(doc, ".category-products, .product-grid, .product_list") # <<>>
         THEN "category"
    ELSE IF \/ Q(doc, "article.post, .blog-post, .entry-content, [itemtype*=\"BlogPosting\"]") # <<>>
            \/ Q(doc, "#comments, .comment-list, .post-comments") # <<>>
         THEN "blog"
    ELSE "unknown"

\* line 803 without the test of the document: every path ending in .xml is a feed
TypeOfPathAnyXmlIsFeed(doc, path, query) ==
    IF AnyIn(path, URL_PATTERNS.product) THEN "product"
    ELSE IF AnyIn(path, URL_PATTERNS.blog) THEN "blog"
    ELSE IF AnyIn(path, URL_PATTERNS.category) THEN "category"
    ELSE IF AnyIn(path, URL_PATTERNS.collection) THEN "collection"
    ELSE IF AnyIn(path, URL_PATTERNS.forum) THEN "forum"
    ELSE IF AnyIn(path, URL_PATTERNS.search) \/ Includes(query, <<"q", "=">>)
            \/ Includes(query, <<"q", "u", "e", "r", "y", "=">>) \/ Includes(query, <<"s", "e",
                    "a", "r", "c", "h", "=">>) THEN "search"
    ELSE IF AnyIn(path, URL_PATTERNS.error) THEN "error"
    ELSE IF path = <<"/", "s", "i", "t", "e", "m", "a", "p", ".", "x", "m",
            "l">> \/ EndsWith(path, <<"/", "s", "i", "t", "e", "m", "a", "p", ".", "x", "m", "l">>)
            \/ Includes(path, <<"s", "i", "t", "e", "m", "a", "p", "_", "i", "n", "d", "e", "x",
                    ".", "x", "m", "l">>) THEN "sitemap"
    ELSE IF path = <<"/", "r", "o", "b", "o", "t", "s", ".", "t", "x", "t">> THEN "robots"
    ELSE IF path = <<"/", "f", "e", "e", "d">> \/ path = <<"/", "r", "s",
            "s">> \/ EndsWith(path, <<".", "x", "m", "l">>) THEN "feed"
    ELSE IF path = <<"/">> \/ AnyIn(path, URL_PATTERNS.staticPageKeywords) THEN "page"
    ELSE "unknown"
\* lines 789-806
TypeOfPath(doc, path, query) ==
    IF AnyIn(path, URL_PATTERNS.product) THEN "product"
    ELSE IF AnyIn(path, URL_PATTERNS.blog) THEN "blog"
    ELSE IF AnyIn(path, URL_PATTERNS.category) THEN "category"
    ELSE IF AnyIn(path, URL_PATTERNS.collection) THEN "collection"
    ELSE IF AnyIn(path, URL_PATTERNS.forum) THEN "forum"
    ELSE IF AnyIn(path, URL_PATTERNS.search) \/ Includes(query, <<"q", "=">>)
            \/ Includes(query, <<"q", "u", "e", "r", "y", "=">>) \/ Includes(query, <<"s", "e",
                    "a", "r", "c", "h", "=">>) THEN "search"
    ELSE IF AnyIn(path, URL_PATTERNS.error) THEN "error"
    ELSE IF path = <<"/", "s", "i", "t", "e", "m", "a", "p", ".", "x", "m",
            "l">> \/ EndsWith(path, <<"/", "s", "i", "t", "e", "m", "a", "p", ".", "x", "m", "l">>)
            \/ Includes(path, <<"s", "i", "t", "e", "m", "a", "p", "_", "i", "n", "d", "e", "x",
                    ".", "x", "m", "l">>) THEN "sitemap"
    ELSE IF path = <<"/", "r", "o", "b", "o", "t", "s", ".", "t", "x", "t">> THEN "robots"
    ELSE IF path = <<"/", "f", "e", "e", "d">> \/ path = <<"/", "r", "s",
            "s">> \/ (EndsWith(path, <<".", "x", "m", "l">>) /\ doc.rss)
         THEN "feed"
    ELSE IF path = <<"/">> \/ AnyIn(path, URL_PATTERNS.staticPageKeywords) THEN "page"
    ELSE "unknown"
TypeOfUrl(doc, u) ==
    IF ~u.ok THEN "unknown" ELSE TypeOfPath(doc, ToLower(u.pathname), ToLower(u.search))
TypeFromUrl(doc, pageUrl) == TypeOfUrl(doc, ParseUrl(pageUrl))

\* 3. the page type guess (lines 751-807): each signal is consulted only while the
\* guess is still unknown, in the order of the code
OrFromOgType(guess, data) == IF guess = "unknown" THEN TypeFromOgType(data) ELSE guess
OrFromDom(guess, doc, siteSelectors) ==
    IF guess = "unknown" THEN TypeFromDom(doc, siteSelectors) ELSE guess
OrFromUrl(guess, doc, pageUrl) == IF guess = "unknown" THEN TypeFromUrl(doc, pageUrl) ELSE guess
Classify(doc, pageUrl, data, siteSelectors) ==
    OrFromUrl(OrFromDom(OrFromOgType(TypeFromSchema(doc), data), doc, siteSelectors),
              doc, pageUrl)

Step3PageType(doc, pageUrl, data, siteSelectors) ==
    [data EXCEPT !.pageTypeGuess = Classify(doc, pageUrl, data, siteSelectors)]

\* 4. seeding from the main JSON-LD item (lines 809-902)

\* the image entries of a JSON-LD item whose image values are URL strings
JsonLdImages(item, altSource, defaultAlt, pageUrl) ==
    SelectSeq(Map(item.image,
                  LAMBDA imgUrl : [src |-> resolveUrl(imgUrl, pageUrl),
                                   alt |-> Or(sanitizeText(altSource), defaultAlt),
                                   width |-> Null, height |-> Null,
                                   hasAlt |-> Truthy(altSource)]),
              LAMBDA img : Truthy(img.src))

\* Array.isArray(offers) ? (offers[0] || offers) : offers
FirstOffer(offers) ==
    IF offers.v = <<>> THEN Offer(Undef, Undef, Undef) ELSE offers.v[1]

PriceText(p) == IF p = Null THEN Undef ELSE ReplaceFirstChar(p, ",", ".")
\* line 835
SeededPrice(offer) ==
    PriceText(sanitizeText(Or(offer.price, Or(offer.lowPrice, offer.highPrice))))

StockLabel(availabilityLower, availability) ==
    IF Includes(availabilityLower, <<"i", "n", "s", "t", "o", "c",
            "k">>) \/ Includes(availabilityLower, <<"o", "n", "b", "a", "c", "k", "o", "r", "d",
                    "e", "r">>)
       \/ Includes(availabilityLower, <<"p", "r", "e", "o", "r", "d", "e", "r">>)
       \/ Includes(availabilityLower, <<"l", "i", "m", "i", "t", "e", "d", "a", "v", "a", "i",
               "l", "a", "b", "i", "l", "i", "t", "y">>) THEN <<"M", "e", "v", "c", "u", "t">>
    ELSE IF Includes(availabilityLower, <<"o", "u", "t", "o", "f", "s", "t", "o", "c",
            "k">>) \/ Includes(availabilityLower, <<"s", "o", "l", "d", "o", "u", "t">>)
            \/ Includes(availabilityLower, <<"d", "i", "s", "c", "o", "n", "t", "i", "n", "u",
                    "e", "d">>) THEN <<"T", "ü", "k", "e", "n", "d", "i">>
    ELSE availability
StockOf(availability, current) ==
    IF availability = Null THEN current ELSE StockLabel(ToLower(availability), availability)
\* lines 837-848
SeededStock(offer, current) == StockOf(sanitizeText(offer.availability), current)

\* `${sanitizeText(prop.name)}: ${sanitizeText(prop.value)}`
TemplateText(v) == IF v = Null THEN <<"n", "u", "l", "l">> ELSE v
SeededFeatures(additionalProperty) ==
    OrUndef(SelectSeq(Map(SelectSeq(additionalProperty.v,
                                    LAMBDA prop : Truthy(prop.name) /\ Truthy(prop.value)),
                          LAMBDA prop : TemplateText(sanitizeText(prop.name)) \o <<":", " ">>
                                        \o TemplateText(sanitizeText(prop.value))),
                      LAMBDA f : Len(f) > 3))
\* line 859: sku || mpn || gtin13 || gtin14 || gtin8 || productID
ProductCode(item) ==
    Or(item.sku, Or(item.mpn, Or(item.gtin13, Or(item.gtin14, Or(item.gtin8, item.productID)))))
SeedFromOffer(item, data, pageUrl, offer, hasOffer) ==
    [data EXCEPT
       !.title = Or(sanitizeText(item.name), data.title),
       !.metaDescription = Or(sanitizeText(item.description), data.metaDescription),
       !.price = IF hasOffer THEN SeededPrice(offer) ELSE data.price,
       !.currencySymbol = IF hasOffer THEN sanitizeText(offer.priceCurrency)
                          ELSE data.currencySymbol,
       !.stockStatus = IF hasOffer THEN SeededStock(offer, data.stockStatus)
                       ELSE data.stockStatus,
       !.category = sanitizeText(Or(item.category, item.brandName)),
       !.features = IF item.additionalProperty.k = "list"
                    THEN SeededFeatures(item.additionalProperty) ELSE data.features,
       !.aiProductSku = sanitizeText(ProductCode(item)),
       !.aiProductBrand = sanitizeText(item.brandName),
       !.images = L(data.images.v \o JsonLdImages(item, item.name, <<"P", "r", "o", "d", "u", "c",
               "t", " ", "I", "m", "a", "g", "e">>, pageUrl))]
SeedProduct(item, data, pageUrl) ==
    SeedFromOffer(item, data, pageUrl, FirstOffer(item.offers), item.offers.k # "undefined")

\* the part of publishDate before "T" when it has one
DatePart(d) == IF Truthy(d) /\ Includes(d, <<"T">>) THEN UpTo(d, {"T"}) ELSE d

\* a JSON value that is no string has no substring method: the call throws
SubstringThrows(v) == v = NumberVal
\* articleBody?.substring(0, n)
BodyPrefix(articleBody, n) == IF IsNil(articleBody) THEN Undef ELSE Take(articleBody, n)

SeededBlogCategories(articleSection) ==
    OrUndef(SelectSeq(Map(articleSection.v, sanitizeText), LAMBDA s : s # Null /\ Len(s) > 1))

SeedBlog(doc, item, data, pageUrl) ==
    [data EXCEPT
       !.title = Or(sanitizeText(Or(item.headline, item.name)), data.title),
       !.metaDescription = Or(sanitizeText(Or(item.description, BodyPrefix(item.articleBody, 300))),
                              data.metaDescription),
       !.publishDate = DatePart(sanitizeText(item.datePublished)),
       !.blogCategories = IF item.articleSection.k = "list"
                          THEN SeededBlogCategories(item.articleSection)
                          ELSE data.blogCategories,
       !.aiBlogAuthor = sanitizeText(AuthorName(item.author)),
       !.blogContentSample = sanitizeText(Or(BodyPrefix(item.articleBody, 500),
                                             FirstText(doc, "article p"))),
       !.images = L(data.images.v \o JsonLdImages(item, item.headline, <<"B", "l", "o", "g", " ",
               "I", "m", "a", "g", "e">>, pageUrl))]

WithCategoryTitle(data, description, title) ==
    [data EXCEPT
       !.title = title,
       !.category = title,
       !.metaDescription = Or(sanitizeText(description), data.metaDescription)]
SeedCategory(item, data) ==
    WithCategoryTitle(data, item.description,
                      Or(sanitizeText(Or(item.name, item.headline)), data.title))

\* the seeding throws: line 864 when the description is empty, line 876 always
SeedingThrows(product, blog) ==
    ~product.present /\ blog.present /\ SubstringThrows(blog.articleBody)
Step4Throws(doc) == SeedingThrows(mainProductSchema(doc), mainBlogSchema(doc))

SeedFrom(doc, pageUrl, data, product, blog, category) ==
    IF product.present THEN SeedProduct(product, data, pageUrl)
    ELSE IF blog.present THEN SeedBlog(doc, blog, data, pageUrl)
    ELSE IF category.present THEN SeedCategory(category, data)
    ELSE data
Step4Seed(doc, pageUrl, data) ==
    SeedFrom(doc, pageUrl, data, mainProductSchema(doc), mainBlogSchema(doc),
             mainCategorySchema(doc))

\* 5. selector extraction for what is still missing (lines 905-953)

WithSplitPrice(data, split) ==
    [data EXCEPT !.price = split.price,
                 !.currencySymbol = IF split.setSymbol THEN split.currencySymbol
                                    ELSE data.currencySymbol]
WithPriceText(data, priceText) ==
    IF Truthy(priceText) /\ ~Truthy(data.currencySymbol)
    THEN WithSplitPrice(data, SplitPrice(priceText))
    ELSE [data EXCEPT !.price = priceText]
\* step 5 without the test of line 907: the selector's price whatever was seeded
FillPriceUnguarded(doc, ss, data) ==
    WithPriceText(data, getElementText(doc, Site(ss, "price"), General("price"), ""))
\* lines 907-922
FillPrice(doc, ss, data) ==
    IF Truthy(data.price) THEN data
    ELSE WithPriceText(data, getElementText(doc, Site(ss, "price"), General("price"), ""))

StockFromText(stockText, stockLower) ==
    IF ~Truthy(stockText) THEN <<"B", "i", "l", "i", "n", "m", "i", "y", "o", "r">>
    ELSE IF Includes(stockLower, <<"o", "u", "t", " ", "o", "f", " ", "s", "t", "o", "c",
            "k">>) \/ Includes(stockLower, <<"t", "ü", "k", "e", "n", "d", "i">>)
            \/ Includes(stockLower, <<"y", "o", "k">>) \/ Includes(stockLower, <<"s", "t", "o",
                    "k", "t", "a", " ", "y", "o", "k">>)
         THEN <<"T", "ü", "k", "e", "n", "d", "i">>
    ELSE IF Includes(stockLower, <<"i", "n", " ", "s", "t", "o", "c",
            "k">>) \/ Includes(stockLower, <<"m", "e", "v", "c", "u", "t">>)
            \/ Includes(stockLower, <<"v", "a", "r">>) \/ Includes(stockLower, <<"s", "t", "o",
                    "k", "t", "a", " ", "v", "a", "r">>)
         THEN <<"M", "e", "v", "c", "u", "t">>
    ELSE stockText
WithStockText(data, stockText) ==
    [data EXCEPT !.stockStatus = StockFromText(stockText, ToLower(stockText))]
\* lines 923-936
FillStock(doc, ss, data) ==
    IF Truthy(data.stockStatus) THEN data
    ELSE WithStockText(data, getElementText(doc, Site(ss, "stockStatus"),
                                            General("stockStatus"), ""))

\* lines 938-941
FillFeaturesAndCategory(doc, ss, data) ==
    [data EXCEPT
       !.features = IF NoItems(data.features)
                    THEN getAllElementTexts(doc, Site(ss, "features") \o General("features"))
                    ELSE data.features,
       !.category = IF ~Truthy(data.category)
                    THEN getElementText(doc, Site(ss, "productCategory"),
                                        General("productCategory"), "")
                    ELSE data.category]

\* [...new Set(list.filter(c => c.length > 1))]
UniqueLongTexts(list) == Distinct(SelectSeq(list, LAMBDA c : Len(c) > 1))

\* text.slice(0,300) + (text.length > 300 ? '...' : '')
Shorten(text) == Take(text, 300) \o (IF Len(text) > 300 THEN <<".", ".", ".">> ELSE <<>>)

\* lines 945, 947, 949: the post-processing of the three blog fields
BlogFields(data, publishDate, blogCategories, blogContentSample) ==
    [data EXCEPT
       !.publishDate = DatePart(publishDate),
       !.blogCategories = IF blogCategories.k = "list"
                          THEN L(UniqueLongTexts(blogCategories.v)) ELSE blogCategories,
       !.blogContentSample = IF Truthy(blogContentSample) THEN Shorten(blogContentSample)
                             ELSE blogContentSample]
\* lines 944-949; GENERAL_SELECTORS has no key blogCategories
FillBlog(doc, ss, data) ==
    BlogFields(data,
        IF ~Truthy(data.publishDate)
        THEN getElementText(doc, Site(ss, "publishDate"), General("publishDate"), "")
        ELSE data.publishDate,
        IF NoItems(data.blogCategories)
        THEN getAllElementTexts(doc, Site(ss, "blogPageCategories"))
        ELSE data.blogCategories,
        IF ~Truthy(data.blogContentSample)
        THEN getElementText(doc, Site(ss, "blogContentSample"),
                            General("blogContentSample"), "")
        ELSE data.blogContentSample)

FillWith(doc, data, ss) ==
    IF data.pageTypeGuess = "product"
    THEN FillFeaturesAndCategory(doc, ss, FillStock(doc, ss, FillPrice(doc, ss, data)))
    ELSE IF data.pageTypeGuess = "blog" THEN FillBlog(doc, ss, data)
    ELSE IF data.pageTypeGuess = "category" /\ ~Truthy(data.category)
         THEN [data EXCEPT !.category =
                  Or(data.title, getElementText(doc, Site(ss, "categoryName"),
                                                General("title"), ""))]
    ELSE data
Step5Fill(doc, pageUrl, data, siteSelectors) == FillWith(doc, data, siteSelectors)

\* 6. images, headings, breadcrumbs, links (lines 955-1003)

\* /logo|icon|avatar|banner|placeholder|favicon|svg/i.test(src)
Decorative(low) ==
    \E w \in { <<"l", "o", "g", "o">>, <<"i", "c", "o", "n">>, <<"a", "v", "a", "t", "a",
            "r">>, <<"b", "a", "n", "n", "e", "r">>, <<"p", "l", "a", "c", "e", "h", "o", "l",
                    "d", "e", "r">>, <<"f", "a", "v", "i", "c", "o", "n">>, <<"s", "v", "g">> } :
        Includes(low, w)
LooksDecorative(src) == Decorative(ToLower(src))

GoodImages(unique) ==
    SelectSeq(unique, LAMBDA img : /\ ~LooksDecorative(img.src)
                                   /\ (Truthy(img.width) => parseInt(img.width, 0) > 100)
                                   /\ (Truthy(img.height) => parseInt(img.height, 0) > 100))
\* lines 969-972: without an og:image the first good image, else the first image
InferredOgImage(unique, goodOnes) == IF goodOnes # <<>> THEN goodOnes[1].src ELSE unique[1].src
WithImages(data, unique) ==
    [data EXCEPT
       !.images = OrNull(unique),
       !.ogImage = IF ~Truthy(data.ogImage) /\ unique # <<>>
                   THEN InferredOgImage(unique, GoodImages(unique))
                   ELSE data.ogImage]
\* lines 961-964
WithOgImage(data, gathered) ==
    IF Truthy(data.ogImage) /\ SelectSeq(gathered, LAMBDA img : img.src = data.ogImage) = <<>>
    THEN gathered \o << [src |-> data.ogImage, alt |-> <<"O", "G", " ", "I", "m", "a", "g", "e">>,
                         width |-> Null, height |-> Null, hasAlt |-> TRUE] >>
    ELSE gathered
UniqueImages(images) == FirstOfEachKey(SelectSeq(images, LAMBDA img : Truthy(img.src)), SrcOf)
ImagesWith(doc, pageUrl, data, ss) ==
    WithImages(data, UniqueImages(WithOgImage(data,
        data.images.v \o extractImagesFromSelectors(doc, pageUrl,
                             Site(ss, "productImages") \o General("productImages"),
                             "article img, main img, .content img"))))
\* lines 956-973
Step6Images(doc, pageUrl, data, siteSelectors) ==
    ImagesWith(doc, pageUrl, data, siteSelectors)

\* lines 977-989: a category drawn from the breadcrumb trail
CategoryFromTrail(data, crumbs, n) ==
    IF n = 0 THEN data
    ELSE IF data.pageTypeGuess = "product" /\ ~Truthy(data.category) /\ n > 1
         THEN [data EXCEPT !.category = crumbs[n - 1].text]
    ELSE IF data.pageTypeGuess = "blog" /\ NoItems(data.blogCategories) /\ n > 1
         THEN IF Truthy(crumbs[n - 1].text)
              THEN [data EXCEPT !.blogCategories = L(<<crumbs[n - 1].text>>)]
              ELSE data
    ELSE IF data.pageTypeGuess = "category" /\ ~Truthy(data.category)
         THEN [data EXCEPT !.category = crumbs[n].text]
    ELSE data
WithTrail(doc, data, breadcrumbs, inferred) ==
    [inferred EXCEPT
       !.headings = extractHeadingsCheerio(doc),
       !.breadcrumbs = breadcrumbs,
       !.category = IF data.pageTypeGuess = "category" /\ ~Truthy(inferred.category)
                       /\ Truthy(data.title)
                    THEN data.title ELSE inferred.category]
WithBreadcrumbs(doc, data, breadcrumbs) ==
    WithTrail(doc, data, breadcrumbs,
              CategoryFromTrail(data, breadcrumbs.v, Len(breadcrumbs.v)))
\* lines 975-990
Step6Breadcrumbs(doc, pageUrl, data) ==
    WithBreadcrumbs(doc, data, extractBreadcrumbsCheerio(doc, pageUrl))

\* lines 993, 997, 1000: each of the three calls constructs new NodeURL(pageUrl)
Step6Throws(doc, pageUrl) == LinksThrow(pageUrl)

WithLinks(data, nav, footer, linksData) ==
    [data EXCEPT
       !.navigationLinks = OrNull(nav.links),
       !.footerLinks = OrNull(footer.links),
       !.allLinks = OrNull(linksData.allLinks),
       !.internalLinks = OrNull(linksData.internalLinks),
       !.externalLinks = OrNull(linksData.externalLinks)]
LinksWith(doc, pageUrl, data, ss) ==
    WithLinks(data,
        extractSpecificLinks(doc, Site(ss, "navigationLinksContainers")
                                  \o General("navigationLinksContainers"), pageUrl),
        extractSpecificLinks(doc, Site(ss, "footerLinksContainers")
                                  \o General("footerLinksContainers"), pageUrl),
        extractPageLinks(doc, pageUrl))
\* lines 992-1003
Step6Links(doc, pageUrl, data, siteSelectors) == LinksWith(doc, pageUrl, data, siteSelectors)

\* 7. the main text and the fallbacks drawn from it (lines 1005-1051)

\* text.substring(0, n).split('\n')[0].trim(), cut at the last space when longer
\* than n - 5, and followed by '...' when the text goes on
ExcerptEnd(mainText, n, cut) == IF Len(mainText) > n /\ Len(cut) < n THEN cut \o <<".", ".",
        ".">> ELSE cut
CutAtSpace(firstLine, n, lastSpace) ==
    IF Len(firstLine) > n - 5
    THEN Take(firstLine, IF lastSpace > 0 THEN lastSpace ELSE n - 5)
    ELSE firstLine
ExcerptOf(mainText, n, firstLine) ==
    ExcerptEnd(mainText, n, CutAtSpace(firstLine, n, LastIndexOfChar(firstLine, " ")))
Excerpt(mainText, n) == ExcerptOf(mainText, n, Trim(UpTo(Take(mainText, n), {"\n"})))

\* line 1038; doc.mainRaw is what the pruned clone of body yields for
\* main || article || .content || #content, #main || the whole clone
CleanedText(text) == IF text = Null THEN <<>> ELSE Take(CollapseRuns(text), 15000)
MainTextContent(doc) == CleanedText(sanitizeText(doc.mainRaw))

WithMainText(data, mainTextContent) ==
    [data EXCEPT
       !.mainTextContent = mainTextContent,
       !.title = IF (~Truthy(data.title) \/ data.title = NoTitle)
                    /\ Len(mainTextContent) > 10
                 THEN Excerpt(mainTextContent, 70) ELSE data.title,
       !.metaDescription = IF ~Truthy(data.metaDescription) /\ Len(mainTextContent) > 20
                           THEN Excerpt(mainTextContent, 160) ELSE data.metaDescription]
Step7MainText(doc, data) == WithMainText(data, MainTextContent(doc))

\* The call as a whole.  threw is TRUE when an exception leaves the function: the
\* function has no try around the seeding and the link extraction.
ExtractThrows(doc, pageUrl) == Step4Throws(doc) \/ Step6Throws(doc, pageUrl)
SubstringTypeError == <<"m", "a", "i", "n", "B", "l", "o", "g", "S", "c", "h", "e", "m", "a", ".",
        "a", "r", "t", "i", "c", "l", "e", "B", "o", "d", "y", "?", ".", "s", "u", "b", "s", "t",
                "r", "i", "n", "g", " ", "i", "s", " ", "n", "o", "t", " ", "a", " ", "f", "u",
                        "n", "c", "t", "i", "o", "n">>
InvalidUrlError == <<"I", "n", "v", "a", "l", "i", "d", " ", "U", "R", "L">>
\* the message of the exception: the seeding comes before the link extraction
ExtractError(doc, pageUrl) == IF Step4Throws(doc) THEN SubstringTypeError ELSE InvalidUrlError

BaseDataWith(doc, pageUrl, siteSelectors) ==
    Step7MainText(doc,
      Step6Links(doc, pageUrl,
        Step6Breadcrumbs(doc, pageUrl,
          Step6Images(doc, pageUrl,
            Step5Fill(doc, pageUrl,
              Step4Seed(doc, pageUrl,
                Step3PageType(doc, pageUrl,
                  Step2JsonLd(doc, Step1Metadata(doc, pageUrl, siteSelectors)),
                  siteSelectors)),
              siteSelectors),
            siteSelectors)),
        siteSelectors))
\* st is the profile store at the time of the read, rejects the read's outcome
extractBaseDataFromHtml(doc, pageUrl, st, rejects) ==
    BaseDataWith(doc, pageUrl, SiteSelectorsFor(pageUrl, st, rejects))

\* a record none of whose fields is set
UnsetData ==
    [InitialData(Undef) EXCEPT
        !.jsonLdData = LUndef, !.schemaOrgTypes = LUndef, !.features = LUndef,
        !.blogCategories = LUndef, !.images = LUndef, !.headings = LUndef,
        !.breadcrumbs = LUndef, !.navigationLinks = LUndef, !.footerLinks = LUndef,
        !.allLinks = LUndef, !.internalLinks = LUndef, !.externalLinks = LUndef]

\* ------------------------------------------------------------------ app/api/scrape-ai/route.ts

Lower == [c \in {Upper[u] : u \in DOMAIN Upper} |-> CHOOSE u \in DOMAIN Upper : Upper[u] = c]
\* String.prototype.toUpperCase over the letters of the model's texts
ToUpper(s) == Recase(s, Lower)

\* the keys of the currency map in insertion order, lower-cased, with their codes
CurrencyMap ==
    << <<<<"₺">>, <<"T", "R", "Y">>>>, <<<<"$">>, <<"U", "S", "D">>>>, <<<<"€">>, <<"E", "U",
            "R">>>>, <<<<"£">>, <<"G", "B", "P">>>>, <<<<"¥">>, <<"J", "P", "Y">>>>,
       <<<<"₹">>, <<"I", "N", "R">>>>, <<<<"₽">>, <<"R", "U", "B">>>>, <<<<"₩">>, <<"K", "R",
               "W">>>>, <<<<"t", "l">>, <<"T", "R", "Y">>>>,
       <<<<"e", "u", "r">>, <<"E", "U", "R">>>>, <<<<"u", "s", "d">>, <<"U", "S",
               "D">>>>, <<<<"g", "b", "p">>, <<"G", "B", "P">>>>, <<<<"t", "r", "y">>, <<"T", "R",
                       "Y">>>>,
       <<<<"c", "a", "d">>, <<"C", "A", "D">>>>, <<<<"a", "u", "d">>, <<"A", "U", "D">>>> >>

IsLetters(s) == \A i \in 1..Len(s) : s[i] \in DOMAIN Upper \/ s[i] \in DOMAIN Lower
\* lines 76-79: the first key the symbol contains, else a three-letter symbol itself
CodeAmong(trimmedSymbol, hits) ==
    IF hits # <<>> THEN hits[1][2]
    ELSE IF Len(trimmedSymbol) = 3 /\ IsLetters(trimmedSymbol) THEN ToUpper(trimmedSymbol)
    ELSE Null
CodeOf(trimmedSymbol) ==
    CodeAmong(trimmedSymbol,
              SelectSeq(CurrencyMap, LAMBDA entry : Includes(trimmedSymbol, entry[1])))
mapCurrencySymbolToCode(symbol) ==
    IF ~Truthy(symbol) THEN Null ELSE CodeOf(ToLower(Trim(symbol)))

\* the values of fetchMethod
FM ==
    [pending |-> <<"a", "x", "i", "o", "s", "_", "p", "e", "n", "d", "i", "n", "g">>,
     axios_success |-> <<"a", "x", "i", "o", "s", "_", "s", "u", "c", "c", "e", "s", "s">>,
     axios_failed_empty_or_bad_status |-> <<"a", "x", "i", "o", "s", "_", "f", "a", "i", "l", "e",
             "d", "_", "e", "m", "p", "t", "y", "_", "o", "r", "_", "b", "a", "d", "_", "s", "t",
                     "a", "t", "u", "s">>,
     axios_failed_exception |-> <<"a", "x", "i", "o", "s", "_", "f", "a", "i", "l", "e", "d", "_",
             "e", "x", "c", "e", "p", "t", "i", "o", "n">>,
     headless_success_reparsed |-> <<"h", "e", "a", "d", "l", "e", "s", "s", "_", "s", "u", "c",
             "c", "e", "s", "s", "_", "r", "e", "p", "a", "r", "s", "e", "d">>,
     headless_no_significant_change |-> <<"h", "e", "a", "d", "l", "e", "s", "s", "_", "n", "o",
             "_", "s", "i", "g", "n", "i", "f", "i", "c", "a", "n", "t", "_", "c", "h", "a", "n",
                     "g", "e">>,
     headless_empty_content |-> <<"h", "e", "a", "d", "l", "e", "s", "s", "_", "e", "m", "p", "t",
             "y", "_", "c", "o", "n", "t", "e", "n", "t">>,
     headless_failed |-> <<"h", "e", "a", "d", "l", "e", "s", "s", "_", "f", "a", "i", "l", "e",
             "d">>,
     axios_failed |-> <<"a", "x", "i", "o", "s", "_", "f", "a", "i", "l", "e", "d">>,
     failed |-> <<"f", "a", "i", "l", "e", "d">>]

\* the thresholds of the handler
MinHtmlGain == 200
MinTextForCheerio == 300
MinTextForUnknown == 800
MinTextForTypeAi == 150
MinTextForAi == 50
MessageLimit == 150
HeadlessMessageLimit == 120

\* x?.length || 0
TextLen(v) == IF IsNil(v) THEN 0 ELSE Len(v)

\* the record sent back: the fields of baseData and those the handler adds
Final(base, more) == more @@ base
\* aiExtractedData: the type and the error it carries, once it is set
Extracted(type, error) == [set |-> TRUE, detectedPageType |-> type, error |-> error]
FinalExtras ==
    [aiDetectedType |-> "undefined", blogPageCategories |-> LUndef,
     aiExtractedData |-> [set |-> FALSE, detectedPageType |-> "undefined", error |-> Undef],
     fetchMethod |-> Undef, rawHtmlLength |-> 0, cleanedTextLength |-> 0]
UnsetFinal == Final(UnsetData, FinalExtras)

\* line 156
MissingUrlBody ==
    [UnsetFinal EXCEPT !.error = <<"U", "R", "L", " ", "g", "e", "r", "e", "k", "l",
            "i">>, !.pageTypeGuess = "client_error",
                       !.aiDetectedType = "client_error", !.url = <<"u", "n", "k", "n", "o", "w",
                               "n", "_", "u", "r", "l", "_", "f", "r", "o", "m", "_", "r", "e",
                                       "q", "u", "e", "s", "t">>]

\* the record without lines 212-213: no page type, and no message of its own
ErrorStateDataBare(url, fetchError) ==
    [UnsetData EXCEPT !.url = url, !.error = fetchError]
\* lines 207-215, no HTML: the record that only carries the transport error
ErrorStateData(url, fetchError) ==
    [UnsetData EXCEPT !.url = url, !.error = fetchError, !.pageTypeGuess = "error",
                      !.message = Or(fetchError, <<"N", "o", " ", "H", "T", "M", "L", " ", "c",
                              "o", "n", "t", "e", "n", "t", " ", "f", "r", "o", "m", " ", "A",
                                      "x", "i", "o", "s", ".">>)]

\* the length of the longest prefix of digits
DigitsEnd(text) ==
    IF \E i \in 1..Len(text) : text[i] \notin Digits
    THEN (CHOOSE i \in 1..Len(text) :
             text[i] \notin Digits /\ \A j \in 1..(i - 1) : text[j] \in Digits) - 1
    ELSE Len(text)
HasNonZero(number) == \E i \in 1..Len(number) : number[i] # "0"
PositiveWithFraction(text, intEnd, afterDot) ==
    HasNonZero(Take(text, intEnd) \o Take(afterDot, DigitsEnd(afterDot)))
PositiveFrom(text, intEnd) ==
    PositiveWithFraction(text, intEnd,
        IF intEnd < Len(text) /\ text[intEnd + 1] = "." THEN Drop(text, intEnd + 1) ELSE <<>>)
\* parseFloat(text) > 0: the longest prefix digits[.digits] has a digit other than 0
ParsesPositive(text) == PositiveFrom(text, DigitsEnd(text))

\* line 220
cheerioFoundTitle(base, url) ==
    /\ Truthy(base.title)
    /\ base.title # NoTitle
    /\ Trim(base.title) # <<>>
    /\ ~StartsWith(base.title, url)

\* line 221: String(price).replace(/[^0-9.,]/g, '').replace(',', '.')
cheerioFoundPriceForProduct(base) ==
    /\ base.pageTypeGuess = "product"
    /\ Truthy(base.price)
    /\ ParsesPositive(ReplaceFirstChar(OnlyPriceChars(base.price), ",", "."))

\* the decision with the content test of line 228 read as "at most"
UseEffectiveHeadlessInclusive(req, html, method, base) ==
    \/ req.useHeadlessOverride
    \/ StartsWith(method, FM.axios_failed)
    \/ /\ html.k = "html"
       /\ \/ ~Truthy(base.title) \/ base.title = NoTitle \/ base.title = req.url
          \/ TextLen(base.mainTextContent) <= MinTextForCheerio
          \/ /\ base.pageTypeGuess = "product"
             /\ (~cheerioFoundTitle(base, req.url) \/ ~cheerioFoundPriceForProduct(base))
          \/ /\ base.pageTypeGuess = "unknown"
             /\ TextLen(base.mainTextContent) < MinTextForUnknown
    \/ html.k = "null"
\* lines 218-242
UseEffectiveHeadless(req, html, method, base) ==
    \/ req.useHeadlessOverride
    \/ StartsWith(method, FM.axios_failed)
    \/ /\ html.k = "html"
       /\ \/ ~Truthy(base.title) \/ base.title = NoTitle \/ base.title = req.url
          \/ TextLen(base.mainTextContent) < MinTextForCheerio
          \/ /\ base.pageTypeGuess = "product"
             /\ (~cheerioFoundTitle(base, req.url) \/ ~cheerioFoundPriceForProduct(base))
          \/ /\ base.pageTypeGuess = "unknown"
             /\ TextLen(base.mainTextContent) < MinTextForUnknown
    \/ html.k = "null"

\* htmlContent?.length || 0
HtmlLen(html) == IF html.k = "html" THEN html.doc.len ELSE 0

\* line 292 without its margin: any longer rendering replaces
RenderedReplacesAnyGain(newHtml, html) ==
    /\ newHtml.len > 0
    /\ \/ newHtml.len > HtmlLen(html)
       \/ html.k = "null"
\* line 292: the rendered HTML takes the place of what the handler holds
RenderedReplaces(newHtml, html) ==
    /\ newHtml.len > 0
    /\ \/ newHtml.len > HtmlLen(html) + MinHtmlGain
       \/ html.k = "null"

\* lines 309-313
WithHeadlessFailure(base, detail) ==
    IF Truthy(base.error) THEN base
    ELSE [base EXCEPT !.error = <<"H", "e", "a", "d", "l", "e", "s", "s", " ", "f", "e", "t", "c",
            "h", " ", "f", "a", "i", "l", "e", "d", ":", " ">> \o detail,
                      !.message = <<"H", "e", "a", "d", "l", "e", "s", "s", ":",
                              " ">> \o Take(detail, HeadlessMessageLimit),
                      !.pageTypeGuess = "error"]

\* lines 325-469
FinalFields(base, url, failed, fallback) ==
    [base EXCEPT
       !.url = Or(base.url, url),
       !.pageTypeGuess = IF base.pageTypeGuess # "undefined" THEN base.pageTypeGuess
                         ELSE IF Truthy(base.error) THEN "error" ELSE "unknown",
       !.images = IF base.images.k = "list" THEN base.images ELSE L(<<>>),
       !.error = IF Truthy(base.error) THEN base.error
                 ELSE IF failed THEN fallback ELSE Null,
       !.message = IF Truthy(base.message) THEN base.message
                   ELSE IF failed THEN Take(fallback, MessageLimit) ELSE Null]
AssembleFinal(base, url, html, method, headlessDetail, fetchError) ==
    Final(FinalFields(base, url, Includes(method, FM.failed),
                      Or(headlessDetail, Or(fetchError, <<"F", "e", "t", "c", "h", " ", "f", "a",
                              "i", "l", "e", "d">>))),
          [FinalExtras EXCEPT
              !.fetchMethod = method,
              !.rawHtmlLength = HtmlLen(html),
              !.cleanedTextLength = TextLen(base.mainTextContent)])

\* line 471
FetchUltimatelyFailed(final, url) ==
    /\ Truthy(final.error)
    /\ (~Truthy(final.title) \/ final.title = NoTitle \/ final.title = url)

\* lines 479-521: the fields found missing ask for the analysis
AnalysisTriggered(final) ==
    IF final.pageTypeGuess \in {"undefined", "unknown", "error"}
    THEN TextLen(final.mainTextContent) > MinTextForTypeAi
    ELSE IF final.pageTypeGuess = "product"
    THEN \/ NoItems(final.features) \/ ~Truthy(final.price) \/ ~Truthy(final.stockStatus)
         \/ NoItems(final.images) \/ ~Truthy(final.category)
         \/ (~Truthy(final.currencyCode) /\ Truthy(final.currencySymbol))
    ELSE IF final.pageTypeGuess = "blog"
    THEN \/ ~Truthy(final.publishDate)
         \/ ~Truthy(final.blogContentSample) \/ Len(final.blogContentSample) < 50
         \/ (NoItems(final.blogCategories) /\ NoItems(final.aiBlogTags))
    ELSE IF final.pageTypeGuess = "category"
    THEN ~Truthy(final.metaDescription) \/ Len(final.metaDescription) < 30
    ELSE FALSE

\* Array.prototype.join(sep)
RECURSIVE JoinWith(_, _)
JoinWith(list, sep) ==
    IF list = <<>> THEN <<>>
    ELSE IF Len(list) = 1 THEN list[1]
    ELSE list[1] \o sep \o JoinWith(Tail(list), sep)

NamesOf(entries) == [i \in DOMAIN entries |-> entries[i].name]

\* The texts of the task descriptions. The letters dotless i, dotted capital I,
\* s with cedilla and g with breve are written i, I, s and g.

\* lines 490-495 without line 494: the images are not looked at
productMissingFieldsButImages(final) ==
    NamesOf(SelectSeq(
        << [missing |-> NoItems(final.features), name |-> <<"ü", "r", "ü", "n", " ", "ö", "z",
                "e", "l", "l", "i", "k", "l", "e", "r", "i", " ", "(", "e", "n", " ", "a", "z",
                        " ", "1", "-", "2", " ", "a", "d", "e", "t", ")">>],
           [missing |-> ~Truthy(final.price), name |-> <<"f", "i", "y", "a", "t">>],
           [missing |-> ~Truthy(final.stockStatus), name |-> <<"s", "t", "o", "k", " ", "d", "u",
                   "r", "u", "m", "u">>],
           [missing |-> ~Truthy(final.category), name |-> <<"ü", "r", "ü", "n", " ", "k", "a",
                   "t", "e", "g", "o", "r", "i", "s", "i">>] >>,
        LAMBDA entry : entry.missing))
\* lines 490-495: the names of the product fields the record lacks, in the order tested
productMissingFields(final) ==
    NamesOf(SelectSeq(
        << [missing |-> NoItems(final.features), name |-> <<"ü", "r", "ü", "n", " ", "ö", "z",
                "e", "l", "l", "i", "k", "l", "e", "r", "i", " ", "(", "e", "n", " ", "a", "z",
                        " ", "1", "-", "2", " ", "a", "d", "e", "t", ")">>],
           [missing |-> ~Truthy(final.price), name |-> <<"f", "i", "y", "a", "t">>],
           [missing |-> ~Truthy(final.stockStatus), name |-> <<"s", "t", "o", "k", " ", "d", "u",
                   "r", "u", "m", "u">>],
           [missing |-> NoItems(final.images), name |-> <<"e", "n", " ", "a", "z", " ", "1", " ",
                   "a", "n", "a", " ", "ü", "r", "ü", "n", " ", "g", "ö", "r", "s", "e", "l",
                           "i">>],
           [missing |-> ~Truthy(final.category), name |-> <<"ü", "r", "ü", "n", " ", "k", "a",
                   "t", "e", "g", "o", "r", "i", "s", "i">>] >>,
        LAMBDA entry : entry.missing))

\* lines 508-511
blogMissingFields(final) ==
    NamesOf(SelectSeq(
        << [missing |-> ~Truthy(final.publishDate), name |-> <<"y", "a", "y", "i", "n", " ", "t",
                "a", "r", "i", "h", "i">>],
           [missing |-> ~Truthy(final.blogContentSample) \/ Len(final.blogContentSample) < 50,
            name |-> <<"y", "a", "z", "i", " ", "ö", "z", "e", "t", "i", " ", "(", "e", "n", " ",
                    "a", "z", " ", "5", "0", " ", "k", "a", "r", "a", "k", "t", "e", "r", ")">>],
           [missing |-> NoItems(final.blogCategories) /\ NoItems(final.aiBlogTags),
            name |-> <<"b", "l", "o", "g", " ", "k", "a", "t", "e", "g", "o", "r", "i", "l", "e",
                    "r", "i", " ", "v", "e", "y", "a", " ", "e", "t", "i", "k", "e", "t", "l",
                            "e", "r", "i">>] >>,
        LAMBDA entry : entry.missing))

\* lines 496-499 and 512-515: the opening sentence, the names joined, a full stop
MissingTask(opening, missingFields) ==
    IF missingFields = <<>> THEN <<>>
    ELSE opening \o JoinWith(missingFields, <<",", " ">>) \o <<".">>

\* line 502
currencyTask(final) ==
    <<" ", "P", "a", "r", "a", " ", "b", "i", "r", "i", "m", "i", " ", "s", "e", "m", "b", "o",
            "l", "ü", " ">> \o <<"'">> \o final.currencySymbol \o <<"'">>
    \o <<" ", "i", "ç", "i", "n", " ", "d", "o", "g", "r", "u", " ", "I", "S", "O", " ", "k", "o",
            "d", "u", "n", "u", " ", "(", "T", "R", "Y", ",", " ", "U", "S", "D", ",", " ", "E",
                    "U", "R", " ", "v", "b", ".", ")", " ", "b", "e", "l", "i", "r", "l", "e", ".">>
\* lines 500-505
WithCurrencyTask(description, final) ==
    IF ~Truthy(final.currencyCode) /\ Truthy(final.currencySymbol)
    THEN (IF description # <<>> THEN description ELSE <<"B", "u", " ", "Ü", "R", "Ü", "N", " ",
            "s", "a", "y", "f", "a", "s", "i", " ", "i", "ç", "i", "n">>)
         \o currencyTask(final)
    ELSE description

\* lines 480-521: ai_task_description as the decision leaves it
AiTaskDescription(final) ==
    IF final.pageTypeGuess \in {"undefined", "unknown", "error"}
    THEN IF TextLen(final.mainTextContent) > MinTextForTypeAi
         THEN <<"B", "u", " ", "s", "a", "y", "f", "a", "n", "i", "n", " ", "T", "Ü", "R", "Ü",
                 "N", "Ü", " ", "(", "p", "r", "o", "d", "u", "c", "t", ",", " ", "b", "l", "o",
                         "g", "P", "o", "s", "t", ",", " ", "c", "a", "t", "e", "g", "o", "r",
                                 "y", "P", "a", "g", "e", ",", " ", "s", "t", "a", "t", "i", "c",
                                         "P", "a", "g", "e", ",", " ", "u", "n", "k", "n", "o",
                                                 "w", "n", ")", " ", "K", "E", "S", "I", "N", "L",
                                                         "E", "S", "T", "I", "R", " ", "v", "e",
                                                                 " ", "b", "u", " ", "t", "ü",
                                                                         "r", "e", " ", "u", "y",
                                                                                 "g", "u", "n",
                                                                                         " ", "T",
                                                                                                 "E", "M", "E", "L", " ", "B", "I", "L", "G", "I", "L", "E", "R", "I", " ", "(", "b", "a", "s", "l", "i", "k", ",", " ", "m", "e", "t", "a", " ", "a", "ç", "i", "k", "l", "a", "m", "a", ",", " ", "v", "a", "r", "s", "a", " ", "f", "i", "y", "a", "t", "/", "k", "a", "t", "e", "g", "o", "r", "i", "/", "t", "a", "r", "i", "h", " ", "g", "i", "b", "i", ")", " ", "ç", "i", "k", "a", "r", ".">>
         ELSE <<>>
    ELSE IF final.pageTypeGuess = "product"
    THEN WithCurrencyTask(
             MissingTask(<<"B", "u", " ", "Ü", "R", "Ü", "N", " ", "s", "a", "y", "f", "a", "s",
                     "i", " ", "i", "ç", "i", "n", " ", "C", "h", "e", "e", "r", "i", "o", "/",
                             "J", "S", "O", "N", "-", "L", "D", "/", "H", "e", "a", "d", "l", "e",
                                     "s", "s", " ", "i", "l", "e", " ", "b", "u", "l", "u", "n",
                                             "a", "n", "l", "a", "r", "i", " ", "d", "o", "g",
                                                     "r", "u", "l", "a", "/", "g", "e", "l", "i",
                                                             "s", "t", "i", "r", " ", "v", "e",
                                                                     " ", "S", "U", " ", "E", "K",
                                                                             "S", "I", "K", " ",
                                                                                     "B", "I",
                                                                                             "L",
                                                                                                     "G", "I", "L", "E", "R", "I", " ", "m", "e", "t", "i", "n", "d", "e", "n", " ", "ç", "i", "k", "a", "r", ":", " ">>,
                         productMissingFields(final)), final)
    ELSE IF final.pageTypeGuess = "blog"
    THEN MissingTask(<<"B", "u", " ", "B", "L", "O", "G", " ", "y", "a", "z", "i", "s", "i", " ",
            "i", "ç", "i", "n", " ", "C", "h", "e", "e", "r", "i", "o", "/", "J", "S", "O", "N",
                    "-", "L", "D", "/", "H", "e", "a", "d", "l", "e", "s", "s", " ", "i", "l",
                            "e", " ", "b", "u", "l", "u", "n", "a", "n", "l", "a", "r", "i", " ",
                                    "d", "o", "g", "r", "u", "l", "a", "/", "g", "e", "l", "i",
                                            "s", "t", "i", "r", " ", "v", "e", " ", "S", "U", " ",
                                                    "E", "K", "S", "I", "K", " ", "B", "I", "L",
                                                            "G", "I", "L", "E", "R", "I", " ",
                                                                    "m", "e", "t", "i", "n", "d",
                                                                            "e", "n", " ", "ç",
                                                                                    "i", "k", "a",
                                                                                            "r",
                                                                                                    ":", " ">>,
                     blogMissingFields(final))
    ELSE IF final.pageTypeGuess = "category"
            /\ (~Truthy(final.metaDescription) \/ Len(final.metaDescription) < 30)
    THEN <<"B", "u", " ", "K", "A", "T", "E", "G", "O", "R", "I", " ", "s", "a", "y", "f", "a",
            "s", "i", " ", "i", "ç", "i", "n", " ", "k", "a", "t", "e", "g", "o", "r", "i", " ",
                    "a", "d", "i", "n", "i", " ", "k", "e", "s", "i", "n", "l", "e", "s", "t",
                            "i", "r", " ", "v", "e", " ", "m", "e", "t", "i", "n", "d", "e", "n",
                                    " ", "b", "i", "r", " ", "k", "a", "t", "e", "g", "o", "r",
                                            "i", " ", "a", "ç", "i", "k", "l", "a", "m", "a", "s",
                                                    "i", " ", "ç", "i", "k", "a", "r", ".">>
    ELSE <<>>

\* the decision without the override of lines 523-526
ShouldCallAIWhenTriggered(final) == AnalysisTriggered(final)
\* lines 523-528: the analysis is dropped when the main text is too short
ShouldCallAI(final) ==
    /\ AnalysisTriggered(final)
    /\ ~(~Truthy(final.mainTextContent) \/ Len(final.mainTextContent) <= MinTextForAi)
    /\ Truthy(final.mainTextContent) /\ Len(final.mainTextContent) > MinTextForAi

\* lines 657-658
WithoutAnalysis(final) ==
    [final EXCEPT
        !.aiDetectedType = final.pageTypeGuess,
        !.aiExtractedData = Extracted(IF final.pageTypeGuess # "undefined"
                                      THEN final.pageTypeGuess ELSE "unknown", Undef)]

\* lines 82-97: an absolute URL is returned as given
HelperResolved(url, u, b) ==
    IF u.ok THEN url
    ELSE IF ~b.ok THEN Null
    ELSE IF StartsWith(url, <<"/", "/">>) THEN b.protocol \o url
    ELSE HrefOrNull(UrlAgainst(url, b))
resolveUrlHelper(url, baseUrl) ==
    IF ~Truthy(url) THEN Null ELSE HelperResolved(url, ParseUrl(url), ParseUrl(baseUrl))

\* what callAI hands back: the parsed JSON of the model's answer, or its error object
NoInfo ==
    [present |-> FALSE, price |-> Undef, currency |-> Undef, stockStatus |-> Undef,
     images |-> LUndef, name |-> Undef, features |-> LUndef, categoriesFromPage |-> LUndef,
     brand |-> Undef, sku |-> Undef, publishDate |-> Undef, summary |-> Undef,
     author |-> Undef, tags |-> LUndef, description |-> Undef]
Info == [NoInfo EXCEPT !.present = TRUE]
AiAnswer(type) ==
    [error |-> Undef, detectedPageType |-> type, pageTitle |-> Undef, metaDescription |-> Undef,
     productInfo |-> NoInfo, blogPostInfo |-> NoInfo, categoryPageInfo |-> NoInfo,
     staticPageInfo |-> NoInfo]
AiFailure(message) == [AiAnswer("unknown") EXCEPT !.error = message]

AiImage(src, altText) ==
    [src |-> src, alt |-> altText, width |-> Undef, height |-> Undef, hasAlt |-> Truthy(altText)]
AiImages(urls, altText, pageUrl) ==
    SelectSeq([i \in 1..Len(urls) |->
                  AiImage(IF Trim(urls[i]) # <<>> THEN resolveUrlHelper(urls[i], pageUrl)
                          ELSE Null, altText)],
              LAMBDA img : img.src # Null)
\* lines 605-615
processAiImageUrls(urls, altTextBase, pageUrl, final) ==
    AiImages(urls.v, Or(altTextBase, Or(final.title, <<"I", "m", "a", "g", "e">>)), pageUrl)

\* Array.prototype.join('; ')
RECURSIVE JoinTexts(_)
JoinTexts(list) ==
    IF list = <<>> THEN <<>>
    ELSE IF Len(list) = 1 THEN list[1]
    ELSE list[1] \o <<";", " ">> \o JoinTexts(Tail(list))

\* a?.length ? a : b
OrList(a, b) == IF a.k = "list" /\ a.v # <<>> THEN a ELSE b

\* lines 618-627
MergeProductInfo(info, final) ==
    IF ~info.present THEN final
    ELSE [final EXCEPT
            !.price = Or(info.price, final.price),
            !.currencyCode = Or(info.currency,
                                Or(final.currencyCode,
                                   mapCurrencySymbolToCode(final.currencySymbol))),
            !.stockStatus = Or(info.stockStatus, final.stockStatus),
            !.features = OrList(info.features, final.features),
            !.category = Or(JoinTexts(info.categoriesFromPage.v), final.category),
            !.aiProductBrand = Or(info.brand, final.aiProductBrand),
            !.aiProductSku = Or(info.sku, final.aiProductSku)]

\* lines 628-635
MergeBlogPostInfo(info, final) ==
    IF ~info.present THEN final
    ELSE [final EXCEPT
            !.publishDate = Or(info.publishDate, Or(final.publishDate, final.date)),
            !.blogCategories = OrList(info.categoriesFromPage, final.blogCategories),
            !.blogContentSample = Or(info.summary, final.blogContentSample),
            !.aiBlogAuthor = Or(info.author, final.aiBlogAuthor),
            !.aiBlogTags = OrList(info.tags, final.aiBlogTags)]

\* lines 636-639
MergeCategoryPageInfo(info, final) ==
    IF ~info.present THEN final
    ELSE [final EXCEPT !.category = Or(info.name, Or(final.category, final.title))]

ImagesOfInfo(info, altTextBase, url, final) ==
    IF info.present /\ info.images.k = "list"
    THEN processAiImageUrls(info.images, altTextBase, url, final) ELSE <<>>
\* the images the answer names, section by section (lines 622, 632, 638, 641)
NewAiImages(ai, url, final) ==
    ImagesOfInfo(ai.productInfo, Or(ai.productInfo.name, final.title), url, final)
    \o ImagesOfInfo(ai.blogPostInfo, Or(ai.blogPostInfo.name, final.title), url, final)
    \o ImagesOfInfo(ai.categoryPageInfo, Or(ai.categoryPageInfo.name, final.title), url, final)
    \o ImagesOfInfo(ai.staticPageInfo, final.title, url, final)

\* lines 644-648
WithAiImages(final, newAiImages) ==
    IF newAiImages = <<>> THEN final
    ELSE [final EXCEPT !.images =
             L(final.images.v
               \o SelectSeq(newAiImages,
                      LAMBDA img : /\ Truthy(img.src)
                                   /\ \A i \in 1..Len(final.images.v) :
                                          final.images.v[i].src # img.src))]

\* line 598
AiSucceeded(ai) ==
    ~Truthy(ai.error) /\ ai.detectedPageType # "" /\ ai.detectedPageType # "unknown"

\* lines 599-603 with the answer's type also taken as the page type
WithAiTitleAndType(ai, final) ==
    [final EXCEPT
       !.aiDetectedType = ai.detectedPageType,
       !.pageTypeGuess = ai.detectedPageType,
       !.aiExtractedData = Extracted(ai.detectedPageType, ai.error),
       !.title = Or(ai.pageTitle, final.title),
       !.metaDescription = Or(ai.metaDescription, final.metaDescription)]
\* lines 599-603
WithAiTitle(ai, final) ==
    [final EXCEPT
       !.aiDetectedType = ai.detectedPageType,
       !.aiExtractedData = Extracted(ai.detectedPageType, ai.error),
       !.title = Or(ai.pageTitle, final.title),
       !.metaDescription = Or(ai.metaDescription, final.metaDescription)]
\* lines 617-648: no section changes the title, which the images' alt text falls back to
MergeSections(ai, titled, url) ==
    WithAiImages(MergeCategoryPageInfo(ai.categoryPageInfo,
                     MergeBlogPostInfo(ai.blogPostInfo,
                         MergeProductInfo(ai.productInfo, titled))),
                 NewAiImages(ai, url, titled))
\* line 653: the keys of the answer come last and replace the two defaults
FailureExtracted(ai, type) ==
    Extracted(IF ai.detectedPageType # "" THEN ai.detectedPageType ELSE type,
              IF ai.error # Undef THEN ai.error
              ELSE <<"A", "I", " ", "a", "n", "a", "l", "y", "s", "i", "s", " ", "f", "a", "i",
                      "l", "e", "d", " ", "o", "r", " ", "t", "y", "p", "e", " ", "u", "n", "k",
                              "n", "o", "w", "n", ".">>)
\* lines 651-655 with the failure also written to the record's own error
WithAiFailureOnRecord(ai, final) ==
    [final EXCEPT
        !.aiDetectedType = IF final.pageTypeGuess # "undefined"
                           THEN final.pageTypeGuess ELSE "ai_error",
        !.error = FailureExtracted(ai, "unknown").error,
        !.aiExtractedData = FailureExtracted(ai, IF final.pageTypeGuess # "undefined"
                                                 THEN final.pageTypeGuess ELSE "ai_error")]
\* lines 651-655: the answer is set aside, its error kept in aiExtractedData
WithAiFailure(ai, final) ==
    [final EXCEPT
        !.aiDetectedType = IF final.pageTypeGuess # "undefined"
                           THEN final.pageTypeGuess ELSE "ai_error",
        !.aiExtractedData = FailureExtracted(ai, IF final.pageTypeGuess # "undefined"
                                                 THEN final.pageTypeGuess ELSE "ai_error")]
\* lines 596-655: the answer merged into the record, or set aside
MergeAiResult(ai, final, url) ==
    IF AiSucceeded(ai)
    THEN MergeSections(ai, WithAiTitle(ai, final), url)
    ELSE WithAiFailure(ai, final)

SymbolUnlessCode(final, code) ==
    [final EXCEPT
       !.currencyCode = code,
       !.currencySymbol = IF Truthy(final.currencySymbol) /\ Truthy(code)
                             /\ ToUpper(final.currencySymbol) = ToUpper(code)
                          THEN Null ELSE final.currencySymbol]
\* lines 663-669
WithCurrencyCode(final) ==
    SymbolUnlessCode(final,
        IF ~Truthy(final.currencyCode) /\ Truthy(final.currencySymbol)
        THEN mapCurrencySymbolToCode(final.currencySymbol)
        ELSE final.currencyCode)

ErrorForced(final, method, specificError) ==
    IF Includes(method, FM.failed) /\ ~Truthy(final.error)
    THEN [final EXCEPT !.error = specificError,
                       !.message = Take(specificError, MessageLimit),
                       !.pageTypeGuess = "error",
                       !.aiDetectedType = "client_error"]
    ELSE IF Truthy(final.error)
            /\ (final.pageTypeGuess # "error" \/ final.aiDetectedType # "client_error")
         THEN [final EXCEPT !.pageTypeGuess = "error", !.aiDetectedType = "client_error"]
    ELSE final
\* lines 671-681
WithErrorForced(final, method, headlessDetail, fetchError) ==
    ErrorForced(final, method, Or(headlessDetail, Or(fetchError, <<"C", "o", "n", "t", "e", "n",
            "t", " ", "f", "e", "t", "c", "h", " ", "f", "a", "i", "l", "e", "d">>)))

\* ------------------------------------------------------------------ pages and requests
\* The inputs the model runs the code on: page URLs, documents and store contents.

\* n characters of running text, words of five letters
Filler(n) == [i \in 1..n |-> IF i % 6 = 0 /\ i < n THEN " " ELSE "x"]

UrlPlain == <<"h", "t", "t", "p", "s", ":", "/", "/", "s", "h", "o", "p", ".", "t", "e", "s", "t",
        "/", "x", "/", "4", "2">>
UrlBlogPath == <<"h", "t", "t", "p", "s", ":", "/", "/", "s", "h", "o", "p", ".", "t", "e", "s",
        "t", "/", "b", "l", "o", "g", "/", "x", "1">>
UrlProductPath == <<"h", "t", "t", "p", "s", ":", "/", "/", "s", "h", "o", "p", ".", "t", "e",
        "s", "t", "/", "p", "r", "o", "d", "u", "c", "t", "/", "x", "1">>
UrlErrorPath == <<"h", "t", "t", "p", "s", ":", "/", "/", "s", "h", "o", "p", ".", "t", "e", "s",
        "t", "/", "4", "0", "4">>
UrlMalformed == <<"s", "h", "o", "p", ".", "t", "e", "s", "t", "/", "x", "/", "4", "2">>
UrlRoot == <<"h", "t", "t", "p", "s", ":", "/", "/", "s", "h", "o", "p", ".", "t", "e", "s", "t",
        "/">>
\* URLs that differ in the keywords of their path and in their query
PathUrls ==
    { <<"h", "t", "t", "p", "s", ":", "/", "/", "s", "h", "o", "p", ".", "t", "e", "s", "t", "/",
            "k", "a", "t", "e", "g", "o", "r", "i", "/", "k", "e", "t", "t", "l", "e",
                    "s">>, <<"h", "t", "t", "p", "s", ":", "/", "/", "s", "h", "o", "p", ".", "t",
                            "e", "s", "t", "/", "c", "o", "l", "l", "e", "c", "t", "i", "o", "n",
                                    "s", "/", "t", "e", "a">>,
      <<"h", "t", "t", "p", "s", ":", "/", "/", "s", "h", "o", "p", ".", "t", "e", "s", "t", "/",
              "c", "o", "l", "l", "e", "c", "t", "i", "o", "n", "/", "t", "e", "a">>, <<"h", "t",
                      "t", "p", "s", ":", "/", "/", "s", "h", "o", "p", ".", "t", "e", "s", "t",
                              "/", "f", "o", "r", "u", "m", "/", "k", "e", "t", "t", "l", "e",
                                      "s">>,
      <<"h", "t", "t", "p", "s", ":", "/", "/", "s", "h", "o", "p", ".", "t", "e", "s", "t", "/",
              "a", "r", "a", "m", "a", "/", "k", "e", "t", "t", "l", "e">>, <<"h", "t", "t", "p",
                      "s", ":", "/", "/", "s", "h", "o", "p", ".", "t", "e", "s", "t", "/", "x",
                              "/", "4", "2", "?", "q", "=", "k", "e", "t", "t", "l", "e">>,
      <<"h", "t", "t", "p", "s", ":", "/", "/", "s", "h", "o", "p", ".", "t", "e", "s", "t", "/",
              "a", "b", "o", "u", "t", "-", "u", "s", "?", "q", "=", "k", "e", "t", "t", "l",
                      "e">>, <<"h", "t", "t", "p", "s", ":", "/", "/", "s", "h", "o", "p", ".",
                              "t", "e", "s", "t", "/", "a", "b", "o", "u", "t", "-", "u", "s">>,
      <<"h", "t", "t", "p", "s", ":", "/", "/", "s", "h", "o", "p", ".", "t", "e", "s", "t", "/",
              "b", "l", "o", "g", "/", "p", "r", "o", "d", "u", "c", "t", "-", "n", "e", "w",
                      "s">>, <<"h", "t", "t", "p", "s", ":", "/", "/", "s", "h", "o", "p", ".",
                              "t", "e", "s", "t", "/", "h", "a", "b", "e", "r", "/", "4", "0",
                                      "4">>,
      <<"h", "t", "t", "p", "s", ":", "/", "/", "s", "h", "o", "p", ".", "t", "e", "s", "t", "/",
              "s", "i", "t", "e", "m", "a", "p", ".", "x", "m", "l">>, <<"h", "t", "t", "p", "s",
                      ":", "/", "/", "s", "h", "o", "p", ".", "t", "e", "s", "t", "/", "r", "o",
                              "b", "o", "t", "s", ".", "t", "x", "t">>,
      <<"h", "t", "t", "p", "s", ":", "/", "/", "s", "h", "o", "p", ".", "t", "e", "s", "t", "/",
              "f", "e", "e", "d">>, <<"h", "t", "t", "p", "s", ":", "/", "/", "s", "h", "o", "p",
                      ".", "t", "e", "s", "t", "/", "r", "s", "s">>, <<"h", "t", "t", "p", "s",
                              ":", "/", "/", "s", "h", "o", "p", ".", "t", "e", "s", "t", "/",
                                      "x", "/", "4", "2", ".", "x", "m", "l">>,
      <<"h", "t", "t", "p", "s", ":", "/", "/", "s", "h", "o", "p", ".", "t", "e", "s", "t", "/",
              "s", "i", "t", "e", "m", "a", "p", "_", "i", "n", "d", "e", "x", ".", "x", "m",
                      "l">>, <<"h", "t", "t", "p", "s", ":", "/", "/", "s", "h", "o", "p", ".",
                              "t", "e", "s", "t", "/", "4", "0", "4", "?", "q", "=", "k", "e",
                                      "t", "t", "l", "e">>,
      <<"h", "t", "t", "p", "s", ":", "/", "/", "s", "h", "o", "p", ".", "t", "e", "s", "t", "/",
              "f", "o", "r", "u", "m", "/", "x", "?", "s", "e", "a", "r", "c", "h", "=", "k", "e",
                      "t", "t", "l", "e">>, <<"h", "t", "t", "p", "s", ":", "/", "/", "s", "h",
                              "o", "p", ".", "t", "e", "s", "t", "/", "n", "e", "w", "s", "/",
                                      "s", "i", "t", "e", "m", "a", "p", ".", "x", "m", "l">> }

\* selector profiles in the store: none, or one for shop.test with its own price selector
NoProfiles == [h \in {} |-> <<>>]
ShopProfile == <<"s", "h", "o", "p", ".", "t", "e", "s", "t">> :> [price |-> << Cfg(".fiyat",
        "") >>]

\* an item whose @type is the one name given, or the array of the names given
LdItem(types) ==
    [NoItem EXCEPT !.present = TRUE, !.types = types, !.typeIsArray = Len(types) > 1]
OneOffer(offer) == [k |-> "object", v |-> <<offer>>]
OfferList(offers) == [k |-> "list", v |-> offers]

ProductFull ==
    [LdItem(<<<<"P", "r", "o", "d", "u", "c", "t">>>>) EXCEPT
        !.name = <<"B", "l", "u", "e", " ", " ", "K", "e", "t", "t", "l", "e">>,
        !.offers = OneOffer(Offer(<<"1", "9", ",", "9", "9">>, <<"T", "R", "Y">>, <<"h", "t", "t",
                "p", "s", ":", "/", "/", "s", "c", "h", "e", "m", "a", ".", "o", "r", "g", "/",
                        "I", "n", "S", "t", "o", "c", "k">>)),
        !.category = <<"K", "i", "t", "c", "h", "e", "n">>,
        !.additionalProperty = L(<< [name |-> <<"C", "o", "l", "o", "u",
                "r">>, propertyID |-> Undef,
                                      value |-> <<"B", "l", "u", "e">>],
                                     [name |-> Undef, propertyID |-> <<"w", "e", "i", "g", "h",
                                             "t">>,
                                      value |-> <<"2", " ", "k", "g">>] >>),
        !.image = << <<"/", "i", "m", "g", "/", "k", "e", "t", "t", "l", "e", ".", "j", "p",
                "g">> >>,
        !.mpn = <<"K", "T", "L", "-", "1">>]
ProductBare == [LdItem(<<<<"T", "h", "i", "n", "g">>, <<"P", "r", "o", "d", "u", "c",
        "t">>>>) EXCEPT !.name = <<"K", "e", "t", "t", "l", "e">>]
ProductBlankPrice ==
    [LdItem(<<<<"P", "r", "o", "d", "u", "c", "t">>>>) EXCEPT
        !.offers = OfferList(<< Offer(<<" ">>, Undef, <<"S", "o", "l", "d", "O", "u",
                "t">>), Offer(<<"7", ".", "5", "0">>, <<"E", "U", "R">>, Undef) >>),
        !.sku = <<>>,
        !.gtin13 = <<"4", "0", "0", "6", "3", "8", "1", "3", "3", "3", "9", "3", "1">>]
BlogFull ==
    [LdItem(<<<<"B", "l", "o", "g", "P", "o", "s", "t", "i", "n", "g">>>>) EXCEPT
        !.headline = <<"T", "e", "a", " ", "a", "t", " ", "h", "o", "m", "e">>,
        !.datePublished = <<"2", "0", "2", "4", "-", "0", "5", "-", "0", "1", "T", "1", "0", ":",
                "0", "0", ":", "0", "0", "Z">>,
        !.articleSection = L(<< <<"T", "e", "a">>, <<"T", "e", "a">>, <<"H", "o", "m", "e">> >>),
        !.articleBody = Filler(400),
        !.author = AuthorObject(<<"A", ".", " ", "W", "r", "i", "t", "e", "r">>)]
\* an article whose @type is an array, with its authors and keywords
BlogListed ==
    [LdItem(<<<<"T", "h", "i", "n", "g">>, <<"A", "r", "t", "i", "c", "l", "e">>>>) EXCEPT
        !.headline = <<"T", "e", "a", " ", "i", "n", " ", "t", "h", "e", " ", "o", "f", "f", "i",
                "c", "e">>,
        !.image = << <<"/", "i", "m", "g", "/", "o", "f", "f", "i", "c", "e", ".", "j", "p",
                "g">> >>,
        !.author = AuthorList(<< <<"B", ".", " ", "E", "d", "i", "t", "o", "r">>, <<"C", ".", " ",
                "W", "r", "i", "t", "e", "r">> >>),
        !.keywords = KeywordsText(<<"t", "e", "a", ",", " ", ",", " ", "o", "f", "f", "i", "c",
                "e", " ">>)]
\* a post whose @type is an array
BlogPostingListed ==
    [LdItem(<<<<"T", "h", "i", "n", "g">>, <<"B", "l", "o", "g", "P", "o", "s", "t", "i", "n",
            "g">>>>) EXCEPT
        !.headline = <<"T", "e", "a", " ", "o", "n", " ", "t", "h", "e", " ", "r", "o", "a", "d">>,
        !.image = << <<"/", "i", "m", "g", "/", "r", "o", "a", "d", ".", "j", "p", "g">> >>,
        !.author = AuthorList(<< <<"B", ".", " ", "E", "d", "i", "t", "o", "r">>, <<"C", ".", " ",
                "W", "r", "i", "t", "e", "r">> >>),
        !.keywords = KeywordsText(<<"t", "e", "a", ",", " ", ",", " ", "r", "o", "a", "d", " ">>)]
BlogBare == [LdItem(<<<<"A", "r", "t", "i", "c", "l", "e">>>>) EXCEPT !.headline = <<"T", "e",
        "a", " ", "a", "t", " ", "h", "o", "m", "e">>]
BlogNumericBody == [LdItem(<<<<"N", "e", "w", "s", "A", "r", "t", "i", "c", "l",
        "e">>>>) EXCEPT !.articleBody = NumberVal]
CategoryList == [LdItem(<<<<"I", "t", "e", "m", "L", "i", "s", "t">>>>) EXCEPT !.name = <<"K",
        "e", "t", "t", "l", "e", "s">>]

LdBlock(items) == [ok |-> TRUE, items |-> items]
BrokenLdBlock == [ok |-> FALSE, items |-> <<>>]

\* the JSON-LD of a page: nothing, one unparsable block, or one main item
StructuredData ==
    { <<>>, <<BrokenLdBlock>>,
      <<LdBlock(<<ProductFull>>)>>, <<LdBlock(<<ProductBare>>)>>,
      <<BrokenLdBlock, LdBlock(<<ProductBlankPrice, ProductFull>>)>>,
      <<LdBlock(<<BlogFull>>)>>, <<LdBlock(<<BlogBare>>)>>, <<LdBlock(<<BlogNumericBody>>)>>,
      <<LdBlock(<<CategoryList>>)>> }

NoElements == [s \in {} |-> <<>>]
\* the og:type meta of a page
OgTypes ==
    { NoElements,
      "meta[property=\"og:type\"]" :> << ElA("content", <<"p", "r", "o", "d", "u", "c", "t">>) >>,
      "meta[property=\"og:type\"]" :> << ElA("content", <<"A", "r", "t", "i", "c", "l", "e">>) >> }

\* the type-revealing markup of a page body
ProductMarkup ==
    (".price" :> << El(<<"1", ".", "2", "3", "4", ",", "5", "6", " ", "₺">>) >>)
    @@ (".add-to-cart-button" :> << El(<<"A", "d", "d">>) >>)
    @@ ("form[action*=\"cart\"] button, button[name*=\"add-to-cart\"], .add-to-cart-button, input[name*=\"add-to-cart\"]"
          :> << El(<<"A", "d", "d">>) >>)
    @@ (".stock-status" :> << El(<<"S", "t", "o", "k", "t", "a", " ", "v", "a", "r">>) >>)
    @@ (".product-features li" :> << El(<<"S", "t", "e", "e", "l", " ", "b", "o", "d",
            "y">>), El(<<" ", "1", ".", "7", " ", "l", " ">>) >>)
    @@ (".posted_in a" :> << El(<<"S", "m", "a", "l", "l", " ", "a", "p", "p", "l", "i", "a", "n",
            "c", "e", "s">>) >>)
ProfilePriceMarkup ==
    (".fiyat" :> << El(<<"$", "1", "2", ".", "5", "0">>) >>)
    @@ ("[itemprop=\"availability\"]" :> << ElTA(<<"o", "u", "t", " ", "o", "f", " ", "s", "t",
            "o", "c", "k">>, "content", <<"O", "u", "t", "O", "f", "S", "t", "o", "c", "k">>) >>)
BlogMarkup ==
    ("article.post, .blog-post, .entry-content, [itemtype*=\"BlogPosting\"]" :> << El(<<"p", "o",
            "s", "t">>) >>)
    @@ ("time[datetime]" :> << ElA("datetime", <<"2", "0", "2", "3", "-", "0", "1", "-", "0", "2",
            "T", "0", "8", ":", "0", "0">>) >>)
    @@ ("article .entry-content p:first-of-type" :> << El(Filler(320)) >>)
    @@ ("article p" :> << El(<<"F", "i", "r", "s", "t", " ", "p", "a", "r", "a", "g", "r", "a",
            "p", "h", ".">>) >>)
CategoryMarkup ==
    (".category-products, .product-grid, .product_list" :> << El(<<"g", "r", "i", "d">>) >>)
    @@ ("h1" :> << ElTA(<<"A", "l", "l", " ", "k", "e", "t", "t", "l", "e",
            "s">>, "tagName", <<"h", "1">>) >>)
    @@ ("h1, h2, h3, h4, h5, h6" :> << ElTA(<<"A", "l", "l", " ", "k", "e", "t", "t", "l", "e",
            "s">>, "tagName", <<"h", "1">>) >>)
\* a product page whose breadcrumb trail holds the page itself only
ShortTrailMarkup ==
    (".add-to-cart-button" :> << El(<<"A", "d", "d">>) >>)
    @@ (".price" :> << El(<<"1", ",", "2", "3", "4", ".", "5", "6">>) >>)
    @@ (".breadcrumbs, .breadcrumb >> li, [itemprop=\"itemListElement\"]"
          :> << El(<<"B", "l", "u", "e", " ", "k", "e", "t", "t", "l", "e">>) >>)
\* a product page whose price text starts with the currency sign
SignFirstMarkup ==
    (".add-to-cart-button" :> << El(<<"A", "d", "d">>) >>)
    @@ (".price" :> << El(<<"₺", "1", ".", "2", "3", "4", ",", "5", "6">>) >>)
Markups ==
    { NoElements, ProductMarkup, ProfilePriceMarkup, BlogMarkup, CategoryMarkup,
      ShortTrailMarkup, SignFirstMarkup }

\* the <title> of a page: a real one, none, or the page's own address
Titles(pageUrl) ==
    { "title" :> << El(<<"S", "h", "o", "p", " ", " ", "T", "e", "s", "t", " ", " ", "P", "a",
            "g", "e">>) >>, NoElements, "title" :> << El(pageUrl) >> }

\* navigation and breadcrumb markup shared by all pages
Chrome ==
    ("header nav >> a[href]" :> << ElTA(<<"K", "e", "t", "t", "l", "e", "s">>, "href", <<"/", "c",
            "/", "k", "e", "t", "t", "l", "e", "s">>),
                                   ElTA(<<"M", "a", "i", "l">>, "href", <<"m", "a", "i", "l", "t",
                                           "o", ":", "a", "@", "s", "h", "o", "p", ".", "t", "e",
                                                   "s", "t">>) >>)
    @@ ("a[href]" :> << ElTA(<<"K", "e", "t", "t", "l", "e", "s">>, "href", <<"/", "c", "/", "k",
            "e", "t", "t", "l", "e", "s">>),
                        ElTA(<<"P", "a", "r", "t", "n", "e", "r">>, "href", <<"h", "t", "t", "p",
                                "s", ":", "/", "/", "p", "a", "r", "t", "n", "e", "r", ".", "t",
                                        "e", "s", "t", "/">>) >>)
    @@ (".breadcrumbs, .breadcrumb >> li, [itemprop=\"itemListElement\"]"
          :> << ElTA(<<"K", "i", "t", "c", "h", "e", "n", "w", "a", "r", "e">>, "href", <<"/",
                  "c", "/", "k", "i", "t", "c", "h", "e", "n">>), El(<<"B", "l", "u", "e", " ",
                          "k", "e", "t", "t", "l", "e">>) >>)

Page(ld, og, markup, title, mainLen, htmlLen) ==
    [sel |-> og @@ markup @@ title @@ Chrome, ld |-> ld, rss |-> FALSE,
     mainRaw |-> Filler(mainLen), len |-> htmlLen]
\* the same page served as an RSS or Atom document: its text contains '<rss' or '<feed'
FeedDocument(page) == [page EXCEPT !.rss = TRUE]

\* ------------------------------------------------------------------ state

VARIABLES
    \* one call of extractBaseDataFromHtml, stage by stage: its arguments and the
    \* record it fills
    asmStage, asmDoc, asmUrl, data,
    \* the profile the running call of extractBaseDataFromHtml read
    siteSelectors,
    \* the selector profile store
    siteConfigurations,
    \* one request to the scrape-ai POST handler: the await its stage is suspended at
    \* ("none" between stages) and its locals
    operationStage, awaiting, pwResponse, request, htmlContent, newHtmlContent, fetchMethod, axiosFetchError, baseData,
    useEffectiveHeadless, headlessErrorDetail, playwrightBrowser, finalData,
    perform_AI_analysis, ai_task_description, aiResult, thrown, response,
    \* what the handler asked of the outside world
    axiosCalls, browserLaunches, aiCalls,
    \* one request to the discover-site-selectors POST handler
    discoverStage, siteUrl, siteHostname, samplePageUrls, sampleIndex, htmlSamples,
    representativeSampleUrl, initialAiSelectors, targetIndex, finalDiscoveredSelectors,
    discoverResponse,
    \* the requests the discovery run made to the model
    aiRequests,
    \* one top-level call of fetchAndParseSitemap: the calls that have not returned, the
    \* two sets the calls share, the requests made for a sitemap and the value returned
    sitemapStage, sitemapInput, sitemapSite, sitemapCalls, visitedSitemaps, allFoundUrls,
    sitemapFetches, sitemapResult,
    \* one request sent through externalAxiosInstance: the outcomes of its attempts, the
    \* counter the interceptor keeps on its config, and what the caller got
    clientStage, clientAttempts, retryCount, clientOutcome

\* the locals of the analysis stages
aiDecision == <<perform_AI_analysis, ai_task_description, aiResult>>
\* no answer received
NoAiResult == AiAnswer("")
asmVars == <<asmStage, asmDoc, asmUrl, data>>
routeVars == <<operationStage, awaiting, pwResponse, request, htmlContent, newHtmlContent, fetchMethod, axiosFetchError, baseData,
               useEffectiveHeadless, headlessErrorDetail, playwrightBrowser, finalData,
               perform_AI_analysis, ai_task_description, aiResult, thrown, response, axiosCalls,
               browserLaunches, aiCalls>>
discoverVars == <<discoverStage, siteUrl, siteHostname, samplePageUrls, sampleIndex, htmlSamples,
                  representativeSampleUrl, initialAiSelectors, targetIndex,
                  finalDiscoveredSelectors, discoverResponse, aiRequests>>
sitemapVars == <<sitemapStage, sitemapInput, sitemapSite, sitemapCalls, visitedSitemaps,
                 allFoundUrls, sitemapFetches, sitemapResult>>
retryVars == <<clientStage, clientAttempts, retryCount, clientOutcome>>
clientVars == <<sitemapVars, retryVars>>
vars == <<asmVars, siteSelectors, siteConfigurations, routeVars, discoverVars, clientVars>>


NoPage == Page(<<>>, NoElements, NoElements, NoElements, 0, 0)
NoRequest ==
    [url |-> Undef, useHeadlessOverride |-> FALSE, autoDiscoverSelectors |-> FALSE]
NoResponse == [kind |-> "none", status |-> 0, body |-> UnsetFinal]

\* a mapping from field keys to lists, with no key
NoSelectors == [k \in {} |-> <<>>]

DiscoverResponse(status, error, message, hostname, selectors) ==
    [status |-> status, error |-> error, message |-> message, hostname |-> hostname,
     selectors |-> selectors]
NoDiscoverResponse == DiscoverResponse(0, Undef, Undef, Undef, NoSelectors)

AsmIdle ==
    /\ asmStage = "idle" /\ asmDoc = NoPage /\ asmUrl = Undef /\ data = UnsetData
    /\ siteSelectors = NoSiteSelectors

RouteIdle ==
    /\ operationStage = "init"
    /\ awaiting = "none"
    /\ pwResponse = Undef
    /\ request = NoRequest
    /\ htmlContent = [k |-> "null", doc |-> NoPage]
    /\ newHtmlContent = [k |-> "null", doc |-> NoPage]
    /\ fetchMethod = Undef
    /\ axiosFetchError = Null
    /\ baseData = UnsetData
    /\ useEffectiveHeadless = FALSE
    /\ headlessErrorDetail = Null
    /\ playwrightBrowser = "null"
    /\ finalData = UnsetFinal
    /\ perform_AI_analysis = FALSE
    /\ ai_task_description = <<>>
    /\ aiResult = NoAiResult
    /\ thrown = Null
    /\ response = NoResponse
    /\ axiosCalls = 0 /\ browserLaunches = 0 /\ aiCalls = 0

DiscoverIdle ==
    /\ discoverStage = "init"
    /\ siteUrl = Undef
    /\ siteHostname = <<>>
    /\ samplePageUrls = <<>>
    /\ sampleIndex = 1
    /\ htmlSamples = <<>>
    /\ representativeSampleUrl = <<>>
    /\ initialAiSelectors = NoSelectors
    /\ targetIndex = 1
    /\ finalDiscoveredSelectors = NoSelectors
    /\ discoverResponse = NoDiscoverResponse
    /\ aiRequests = 0

\* no call of fetchAndParseSitemap and no request of the sitemap client
SitemapIdle ==
    /\ sitemapStage = "idle"
    /\ sitemapInput = <<>>
    /\ sitemapSite = << >>
    /\ sitemapCalls = <<>>
    /\ visitedSitemaps = {}
    /\ allFoundUrls = <<>>
    /\ sitemapFetches = <<>>
    /\ sitemapResult = <<>>
RetryIdle ==
    /\ clientStage = "idle"
    /\ clientAttempts = <<>>
    /\ retryCount = 0
    /\ clientOutcome = "none"
ClientIdle == SitemapIdle /\ RetryIdle

\* ------------------------------------------------------------------ the assembler, step by step

\* the sizes of the pages the assembler is run on
AsmTextLen == 30
AsmHtmlLen == 1000

\* the lengths of main text around the limits of lines 1038-1046
AsmMainLens == { 0, 10, 11, 64, 70, 71, 100 }
AsmUrls == { UrlPlain, UrlBlogPath, UrlProductPath, UrlErrorPath, UrlMalformed, UrlRoot }
\* pages of every kind with a short main text
FullPages(pageUrl) ==
    { Page(ld, og, markup, title, AsmTextLen, AsmHtmlLen) :
        ld \in StructuredData, og \in OgTypes, markup \in Markups, title \in Titles(pageUrl) }
\* pages without structured data, og:type and type-revealing markup, with main texts of
\* several lengths
BarePages == { Page(<<>>, NoElements, NoElements, NoElements, n, AsmHtmlLen) : n \in AsmMainLens }
\* a bare page that is an RSS or Atom document
FeedPages == { FeedDocument(Page(<<>>, NoElements, NoElements, NoElements, AsmTextLen, AsmHtmlLen)) }
AsmPages(pageUrl) ==
    IF pageUrl \in PathUrls THEN BarePages \cup FeedPages
    ELSE FullPages(pageUrl) \cup BarePages \cup FeedPages

InitAsm ==
    /\ RouteIdle
    /\ DiscoverIdle
    /\ ClientIdle
    /\ siteConfigurations \in { NoProfiles, ShopProfile }
    /\ asmUrl \in AsmUrls \cup PathUrls
    /\ asmDoc \in AsmPages(asmUrl)
    /\ asmStage = "called"
    /\ siteSelectors = NoSiteSelectors
    /\ data = InitialData(asmUrl)

AsmStep(from, to, newData) ==
    /\ asmStage = from
    /\ asmStage' = to
    /\ data' = newData
    /\ UNCHANGED <<asmDoc, asmUrl, siteSelectors, siteConfigurations, routeVars, discoverVars,
                   clientVars>>

\* line 692: the profile of the page's host is read, or the read fails
AsmSelectors ==
    /\ asmStage = "called"
    /\ asmStage' = "selectors"
    /\ \E rejects \in BOOLEAN :
          siteSelectors' = SiteSelectorsFor(asmUrl, siteConfigurations, rejects)
    /\ UNCHANGED <<asmDoc, asmUrl, data, siteConfigurations, routeVars, discoverVars,
                   clientVars>>
AsmMetadata == AsmStep("selectors", "metadata", Step1Metadata(asmDoc, asmUrl, siteSelectors))
AsmJsonLd == AsmStep("metadata", "json-ld", Step2JsonLd(asmDoc, data))
AsmPageType ==
    AsmStep("json-ld", "page-type", Step3PageType(asmDoc, asmUrl, data, siteSelectors))
AsmSeed ==
    IF Step4Throws(asmDoc) THEN AsmStep("page-type", "threw", data)
    ELSE AsmStep("page-type", "seeded", Step4Seed(asmDoc, asmUrl, data))
AsmFill == AsmStep("seeded", "filled", Step5Fill(asmDoc, asmUrl, data, siteSelectors))
AsmStructure ==
    LET withImages == Step6Images(asmDoc, asmUrl, data, siteSelectors)
        withCrumbs == Step6Breadcrumbs(asmDoc, asmUrl, withImages)
    IN IF Step6Throws(asmDoc, asmUrl) THEN AsmStep("filled", "threw", withCrumbs)
       ELSE AsmStep("filled", "structured",
                    Step6Links(asmDoc, asmUrl, withCrumbs, siteSelectors))
AsmMainText == AsmStep("structured", "returned", Step7MainText(asmDoc, data))

NextAsm ==
    \/ AsmSelectors \/ AsmMetadata \/ AsmJsonLd \/ AsmPageType \/ AsmSeed \/ AsmFill \/ AsmStructure
    \/ AsmMainText

SpecAsm == InitAsm /\ [][NextAsm]_vars

\* ------------------------------------------------------------------ the POST handler, stage by stage

RequestUrls == { Undef, UrlMalformed, UrlPlain, UrlProductPath, UrlRoot }
\* the URLs requested with autoDiscoverSelectors set
AutoDiscoverUrls == { UrlMalformed, UrlRoot }

\* the sizes of the pages the handler is run on
LightHtmlLen == 2000
RenderedTextLen == 900

\* what the light fetch finds at a URL
LightPages(pageUrl) ==
    { Page(ld, NoElements, markup, title, mainLen, LightHtmlLen) :
        ld \in { <<>>, <<LdBlock(<<ProductFull>>)>>, <<LdBlock(<<ProductBare>>)>>,
                 <<LdBlock(<<BlogNumericBody>>)>> },
        markup \in { NoElements, ProductMarkup },
        title \in Titles(pageUrl),
        mainLen \in { 0, MinTextForAi, MinTextForAi + 1, MinTextForCheerio - 1,
                      MinTextForCheerio, MinTextForUnknown - 1, MinTextForUnknown } }

\* what the browser renders there: HTML of some length, possibly the empty string
RenderedPages(pageUrl) ==
    { Page(<<>>, NoElements, NoElements, NoElements, 0, 0),
      Page(<<LdBlock(<<ProductFull>>)>>, NoElements, ProductMarkup,
           "title" :> << El(<<"R", "e", "n", "d", "e", "r", "e", "d", " ", "k", "e", "t", "t",
                   "l", "e">>) >>, RenderedTextLen, LightHtmlLen + MinHtmlGain),
      Page(<<LdBlock(<<ProductFull>>)>>, NoElements, ProductMarkup,
           "title" :> << El(<<"R", "e", "n", "d", "e", "r", "e", "d", " ", "k", "e", "t", "t",
                   "l", "e">>) >>, RenderedTextLen, LightHtmlLen + MinHtmlGain + 1),
      Page(<<LdBlock(<<BlogNumericBody>>)>>, NoElements, NoElements,
           "title" :> << El(<<"R", "e", "n", "d", "e", "r", "e", "d", " ", "p", "o", "s",
                   "t">>) >>, RenderedTextLen, LightHtmlLen + MinHtmlGain + 1),
      Page(<<>>, NoElements, NoElements, "title" :> << El(pageUrl) >>, 20, 100) }

AxiosFailures ==
    { [method |-> FM.axios_failed_empty_or_bad_status,
       message |-> <<"A", "x", "i", "o", "s", " ", "r", "e", "t", "u", "r", "n", "e", "d", " ",
               "s", "t", "a", "t", "u", "s", " ", "2", "0", "4", " ", "o", "r", " ", "e", "m",
                       "p", "t", "y", "/", "i", "n", "v", "a", "l", "i", "d", " ", "d", "a", "t",
                               "a", ".", " ", "L", "e", "n", "g", "t", "h", ":", " ", "0">>],
      [method |-> FM.axios_failed_exception,
       message |-> <<"R", "e", "q", "u", "e", "s", "t", " ", "f", "a", "i", "l", "e", "d", " ",
               "w", "i", "t", "h", " ", "s", "t", "a", "t", "u", "s", " ", "c", "o", "d", "e",
                       " ", "4", "0", "4", " ", "(", "S", "t", "a", "t", "u", "s", ":", " ", "4",
                               "0", "4", ")">>],
      [method |-> FM.axios_failed_exception, message |-> <<"t", "i", "m", "e", "o", "u", "t", " ",
              "o", "f", " ", "1", "5", "0", "0", "0", "m", "s", " ", "e", "x", "c", "e", "e", "d",
                      "e", "d">>] }

\* line 251
LaunchFailure == <<"F", "a", "i", "l", "e", "d", " ", "t", "o", " ", "l", "a", "u", "n", "c", "h",
        " ", "P", "l", "a", "y", "w", "r", "i", "g", "h", "t", " ", "b", "r", "o", "w", "s", "e",
                "r", " ", "i", "n", "s", "t", "a", "n", "c", "e", ".">>
\* line 278
NullResponseFailure == <<"P", "l", "a", "y", "w", "r", "i", "g", "h", "t", " ", "p", "a", "g",
        "e", ".", "g", "o", "t", "o", " ", "r", "e", "t", "u", "r", "n", "e", "d", " ", "n", "u",
                "l", "l", " ", "r", "e", "s", "p", "o", "n", "s", "e", ".">>
\* what page.goto resolves with: no response, or a response with a status
GotoResponses == { Null, <<"2", "0", "0">>, <<"4", "0", "4">> }
\* line 276: what page.goto rejects with when the page does not settle in 45 s
NavigationTimeout == <<"p", "a", "g", "e", ".", "g", "o", "t", "o", ":", " ", "T", "i", "m", "e",
        "o", "u", "t", " ", "4", "5", "0", "0", "0", "m", "s", " ", "e", "x", "c", "e", "e", "d",
                "e", "d", ".">>

JsonSyntaxError == <<"U", "n", "e", "x", "p", "e", "c", "t", "e", "d", " ", "e", "n", "d", " ",
        "o", "f", " ", "J", "S", "O", "N", " ", "i", "n", "p", "u", "t">>

\* what callAI hands back: an API error, a reply that is not JSON, no type, or an answer
AiResults ==
    { AiFailure(<<"A", "I", " ", "A", "P", "I", " ", "E", "r", "r", "o", "r", " ", "(", "g", "e",
            "m", "i", "n", "i", ")", ":", " ", "q", "u", "o", "t", "a", " ", "e", "x", "c", "e",
                    "e", "d", "e", "d">>),
      AiFailure(<<"G", "e", "m", "i", "n", "i", " ", "r", "e", "s", "p", "o", "n", "s", "e", " ",
              "d", "i", "d", " ", "n", "o", "t", " ", "c", "o", "n", "t", "a", "i", "n", " ", "a",
                      " ", "r", "e", "c", "o", "g", "n", "i", "z", "a", "b", "l", "e", " ", "J",
                              "S", "O", "N", " ", "b", "l", "o", "c", "k", ".">>),
      AiAnswer("unknown"),
      [AiAnswer("product") EXCEPT
          !.pageTitle = <<"n", "u", "l", "l">>, !.metaDescription = <<>>,
          !.productInfo = [Info EXCEPT !.price = <<"n", "u", "l", "l">>, !.currency = Null,
                                       !.stockStatus = <<"n", "u", "l", "l">>, !.brand = <<"n",
                                               "u", "l", "l">>,
                                       !.images = L(<< <<"/", "i", "m", "g", "/", "k", "e", "t",
                                               "t", "l", "e", ".", "j", "p", "g">>, <<"/", "i",
                                                       "m", "g", "/", "k", "e", "t", "t", "l",
                                                               "e", ".", "j", "p", "g">>,
                                                       <<"/", "/", "s", "h", "o", "p", ".", "t",
                                                               "e", "s", "t", "/", "i", "m", "g",
                                                                       "/", "k", "e", "t", "t",
                                                                               "l", "e", ".", "j",
                                                                                       "p",
                                                                                               "g">> >>)]],
      [AiAnswer("blogPost") EXCEPT
          !.blogPostInfo = [Info EXCEPT !.publishDate = <<"2", "0", "2", "4", "-", "0", "6", "-",
                  "0", "1">>, !.summary = <<"n", "u", "l", "l">>,
                                        !.author = <<"A", ".", " ", "W", "r", "i", "t", "e",
                                                "r">>]],
      [AiAnswer("product") EXCEPT
          !.pageTitle = <<"K", "e", "t", "t", "l", "e", ",", " ", "b", "l", "u", "e">>,
          !.productInfo = [Info EXCEPT !.price = <<"2", "1", ".", "0", "0">>, !.currency = <<"T",
                  "R", "Y">>,
                                       !.images = L(<< <<"/", "i", "m", "g", "/", "k", "e", "t",
                                               "t", "l", "e", ".", "j", "p", "g">>, <<"/", "i",
                                                       "m", "g", "/", "s", "i", "d", "e", ".",
                                                               "j", "p", "g">> >>),
                                       !.categoriesFromPage = L(<< <<"H", "o", "m", "e">>, <<"K",
                                               "i", "t", "c", "h", "e", "n">> >>)]],
      [AiAnswer("staticPage") EXCEPT !.staticPageInfo = Info] }

Init ==
    /\ AsmIdle
    /\ RouteIdle
    /\ DiscoverIdle
    /\ ClientIdle
    /\ siteConfigurations \in { NoProfiles, ShopProfile }

Stage(from, to) == operationStage = from /\ operationStage' = to

\* lines 144-157: the body is not JSON, carries no url, or carries one
ParseRequest ==
    /\ operationStage = "init"
    /\ \E body \in {"invalid"} \cup {"json"} :
       \E url \in RequestUrls, override \in BOOLEAN, discover \in BOOLEAN :
          IF body = "invalid"
          THEN /\ url = Undef /\ ~override /\ ~discover
               /\ operationStage' = "global-catch"
               /\ thrown' = JsonSyntaxError
               /\ UNCHANGED <<request, response>>
          ELSE IF ~Truthy(url)
          THEN /\ ~override /\ ~discover
               /\ operationStage' = "global-finally-close-browser"
               /\ response' = [kind |-> "json", status |-> 400, body |-> MissingUrlBody]
               /\ UNCHANGED <<request, thrown>>
          ELSE /\ discover => url \in AutoDiscoverUrls /\ ~override
               /\ operationStage' = "hostname-extraction"
               /\ request' = [url |-> url, useHeadlessOverride |-> override,
                              autoDiscoverSelectors |-> discover]
               /\ UNCHANGED <<response, thrown>>
    /\ UNCHANGED <<asmVars, clientVars, discoverVars, siteConfigurations, siteSelectors,
                   awaiting, pwResponse, htmlContent, newHtmlContent, fetchMethod,
                   axiosFetchError, baseData, useEffectiveHeadless, headlessErrorDetail,
                   playwrightBrowser, finalData, aiDecision, axiosCalls,
                   browserLaunches, aiCalls>>

\* lines 160-170: new NodeURL(url) throws on a URL it cannot parse; with
\* autoDiscoverSelectors and a host name the look-up of the stored selectors comes first
HostnameExtraction ==
    /\ operationStage = "hostname-extraction"
    /\ IF ParseUrl(request.url).ok
       THEN IF request.autoDiscoverSelectors /\ Truthy(ParseUrl(request.url).hostname)
            THEN /\ operationStage' = "auto-selector-discovery"
                 /\ UNCHANGED <<fetchMethod, thrown>>
            ELSE /\ operationStage' = "axios-fetch-attempt"
                 /\ fetchMethod' = FM.pending
                 /\ UNCHANGED thrown
       ELSE /\ operationStage' = "global-catch"
            /\ thrown' = InvalidUrlError
            /\ UNCHANGED fetchMethod
    /\ UNCHANGED <<asmVars, clientVars, discoverVars, siteConfigurations, siteSelectors,
                   awaiting, pwResponse, request, htmlContent, newHtmlContent,
                   axiosFetchError, baseData, useEffectiveHeadless, headlessErrorDetail,
                   playwrightBrowser, finalData, aiDecision, response, axiosCalls,
                   browserLaunches, aiCalls>>

\* lines 98-111 and 165: the stored selectors of the host are read and counted, a failed
\* read is caught and logged; nothing of the request changes
AutoSelectorDiscovery ==
    /\ Stage("auto-selector-discovery", "axios-fetch-attempt")
    /\ fetchMethod' = FM.pending
    /\ UNCHANGED <<asmVars, clientVars, discoverVars, siteConfigurations, siteSelectors,
                   awaiting, pwResponse, request, htmlContent, newHtmlContent,
                   axiosFetchError, baseData, useEffectiveHeadless, headlessErrorDetail,
                   playwrightBrowser, finalData, aiDecision, response, thrown, axiosCalls,
                   browserLaunches, aiCalls>>

\* lines 172-204
AxiosFetch ==
    /\ Stage("axios-fetch-attempt", "initial-cheerio-parse")
    /\ axiosCalls' = axiosCalls + 1
    /\ \/ \E page \in LightPages(request.url) :
             /\ htmlContent' = [k |-> "html", doc |-> page]
             /\ fetchMethod' = FM.axios_success
             /\ UNCHANGED axiosFetchError
       \/ \E failure \in AxiosFailures :
             /\ axiosFetchError' = failure.message
             /\ fetchMethod' = failure.method
             /\ UNCHANGED htmlContent
    /\ UNCHANGED <<asmVars, clientVars, discoverVars, siteConfigurations, siteSelectors,
                   awaiting, pwResponse, request, newHtmlContent, baseData,
                   useEffectiveHeadless, headlessErrorDetail, playwrightBrowser, finalData,
                   aiDecision, thrown, response, browserLaunches, aiCalls>>

\* line 207
DeclaredBaseData(url, fetchError) ==
    [UnsetData EXCEPT !.url = url, !.error = fetchError,
                      !.message = IF Truthy(fetchError) THEN Take(fetchError, MessageLimit)
                                  ELSE Null]

\* lines 206-215: with HTML the assembler is called, which runs as far as its read of
\* the stored profile; without HTML the record of the transport error is all there is
InitialCheerioParse ==
    /\ operationStage = "initial-cheerio-parse"
    /\ awaiting = "none"
    /\ IF htmlContent.k = "html"
       THEN /\ awaiting' = "getStoredSiteSelectors"
            /\ baseData' = DeclaredBaseData(request.url, axiosFetchError)
            /\ UNCHANGED operationStage
       ELSE /\ operationStage' = "headless-decision"
            /\ baseData' = ErrorStateData(request.url, axiosFetchError)
            /\ UNCHANGED awaiting
    /\ UNCHANGED <<asmVars, clientVars, discoverVars, siteConfigurations, siteSelectors,
                   pwResponse, request, htmlContent, newHtmlContent,
                   fetchMethod, axiosFetchError, useEffectiveHeadless, headlessErrorDetail,
                   playwrightBrowser, finalData, aiDecision, thrown, response, axiosCalls,
                   browserLaunches, aiCalls>>

\* scraper-utils.ts lines 688-692, in the call of line 209 or of line 294 (of line 399
\* in unnamed/part_003): the profile of the page's host is read, or the read fails
StoredSelectorsRead ==
    /\ awaiting = "getStoredSiteSelectors"
    /\ awaiting' = "extractBaseDataFromHtml"
    /\ \E rejects \in BOOLEAN :
          siteSelectors' = SiteSelectorsFor(request.url, siteConfigurations, rejects)
    /\ UNCHANGED <<asmVars, clientVars, discoverVars, siteConfigurations, operationStage,
                   pwResponse, request, htmlContent, newHtmlContent, fetchMethod,
                   axiosFetchError, baseData, useEffectiveHeadless, headlessErrorDetail,
                   playwrightBrowser, finalData, aiDecision, thrown, response, axiosCalls,
                   browserLaunches, aiCalls>>

\* lines 209-210: the assembler returns its record, or throws
InitialExtraction ==
    /\ operationStage = "initial-cheerio-parse"
    /\ awaiting = "extractBaseDataFromHtml"
    /\ awaiting' = "none"
    /\ IF ExtractThrows(htmlContent.doc, request.url)
       THEN /\ operationStage' = "global-catch"
            /\ thrown' = ExtractError(htmlContent.doc, request.url)
            /\ UNCHANGED baseData
       ELSE /\ operationStage' = "headless-decision"
            /\ baseData' = [BaseDataWith(htmlContent.doc, request.url, siteSelectors)
                              EXCEPT !.url = request.url]
            /\ UNCHANGED thrown
    /\ UNCHANGED <<asmVars, clientVars, discoverVars, siteConfigurations, siteSelectors,
                   pwResponse, request, htmlContent, newHtmlContent,
                   fetchMethod, axiosFetchError, useEffectiveHeadless, headlessErrorDetail,
                   playwrightBrowser, finalData, aiDecision, response, axiosCalls,
                   browserLaunches, aiCalls>>

\* lines 217-246
HeadlessDecision ==
    /\ operationStage = "headless-decision"
    /\ useEffectiveHeadless' = UseEffectiveHeadless(request, htmlContent, fetchMethod, baseData)
    /\ operationStage' = IF useEffectiveHeadless' THEN "headless-fetch-attempt"
                         ELSE "final-data-assembly"
    /\ UNCHANGED <<asmVars, clientVars, discoverVars, siteConfigurations, siteSelectors,
                   awaiting, pwResponse, request, htmlContent, newHtmlContent,
                   fetchMethod, axiosFetchError, baseData, headlessErrorDetail,
                   playwrightBrowser, finalData, aiDecision, thrown, response,
                   axiosCalls, browserLaunches, aiCalls>>

\* what no step of the headless stage changes
HeadlessFrame ==
    UNCHANGED <<asmVars, clientVars, discoverVars, siteConfigurations, request,
                axiosFetchError, useEffectiveHeadless, finalData, aiDecision, thrown,
                response, axiosCalls, aiCalls>>
\* lines 304-315: the catch block, and the first statement of the finally block
HeadlessCaught(message) ==
    /\ headlessErrorDetail' = message
    /\ fetchMethod' = FM.headless_failed
    /\ baseData' = WithHeadlessFailure(baseData, message)
    /\ operationStage' = "headless-closing"
    /\ awaiting' = "none"
\* the try block goes on to its next await
HeadlessGoesOn(to) ==
    /\ awaiting' = to
    /\ UNCHANGED <<operationStage, headlessErrorDetail, fetchMethod, baseData>>
\* a call of the try block that gives the handler nothing to keep
HeadlessAwait(from, to) ==
    /\ operationStage = "headless-fetch-attempt"
    /\ awaiting = from
    /\ HeadlessGoesOn(to)
    /\ UNCHANGED <<playwrightBrowser, browserLaunches, htmlContent, newHtmlContent,
                   siteSelectors, pwResponse>>
    /\ HeadlessFrame

\* lines 246-253: launch gives a browser or none
HeadlessLaunch ==
    /\ operationStage = "headless-fetch-attempt"
    /\ awaiting = "none"
    /\ browserLaunches' = browserLaunches + 1
    /\ \E browser \in {"null", "open"} :
          /\ playwrightBrowser' = browser
          /\ IF browser = "null" THEN HeadlessCaught(LaunchFailure)
             ELSE HeadlessGoesOn("newContext")
    /\ UNCHANGED <<htmlContent, newHtmlContent, siteSelectors, pwResponse>>
    /\ HeadlessFrame
\* lines 253-259
HeadlessNewContext == HeadlessAwait("newContext", "newPage")
\* lines 259-261
HeadlessNewPage == HeadlessAwait("newPage", "route")
\* lines 261-276
HeadlessRoute == HeadlessAwait("route", "goto")
\* lines 276-287: the navigation times out, or gives no response, or one with a
\* status; any status but 200 has the page's content read for the log
HeadlessGoto ==
    /\ operationStage = "headless-fetch-attempt"
    /\ awaiting = "goto"
    /\ \/ /\ HeadlessCaught(NavigationTimeout)
          /\ UNCHANGED pwResponse
       \/ /\ pwResponse' \in GotoResponses
          /\ IF ~Truthy(pwResponse') THEN HeadlessCaught(NullResponseFailure)
             ELSE HeadlessGoesOn(IF pwResponse' # <<"2", "0", "0">> THEN "errorContent"
                                 ELSE "waitForTimeout")
    /\ UNCHANGED <<playwrightBrowser, browserLaunches, htmlContent, newHtmlContent,
                   siteSelectors>>
    /\ HeadlessFrame
\* lines 282-284
HeadlessErrorContent ==
    /\ operationStage = "headless-fetch-attempt"
    /\ awaiting = "errorContent"
    /\ HeadlessCaught(<<"P", "l", "a", "y", "w", "r", "i", "g", "h", "t", " ", "n", "a", "v", "i",
            "g", "a", "t", "i", "o", "n", " ", "f", "a", "i", "l", "e", "d", " ", "w", "i", "t",
                    "h", " ", "s", "t", "a", "t", "u", "s", ":", " ">> \o pwResponse)
    /\ UNCHANGED <<playwrightBrowser, browserLaunches, htmlContent, newHtmlContent,
                   siteSelectors, pwResponse>>
    /\ HeadlessFrame
\* lines 287-289
HeadlessWait == HeadlessAwait("waitForTimeout", "content")
\* lines 289-294 and 300-303: the rendered HTML is kept when it is long enough, and the
\* assembler is called on it, which runs as far as its read of the stored profile
HeadlessContent ==
    /\ operationStage = "headless-fetch-attempt"
    /\ awaiting = "content"
    /\ \E page \in RenderedPages(request.url) :
          /\ newHtmlContent' = [k |-> "html", doc |-> page]
          /\ IF RenderedReplaces(page, htmlContent)
             THEN /\ htmlContent' = [k |-> "html", doc |-> page]
                  /\ HeadlessGoesOn("getStoredSiteSelectors")
             ELSE /\ fetchMethod' = IF htmlContent.k = "html"
                                    THEN FM.headless_no_significant_change
                                    ELSE FM.headless_empty_content
                  /\ operationStage' = "headless-closing"
                  /\ awaiting' = "none"
                  /\ UNCHANGED <<htmlContent, baseData, headlessErrorDetail>>
    /\ UNCHANGED <<playwrightBrowser, browserLaunches, siteSelectors, pwResponse>>
    /\ HeadlessFrame
\* lines 294-299: the assembler returns its record, or throws
HeadlessReparse ==
    /\ operationStage = "headless-fetch-attempt"
    /\ awaiting = "extractBaseDataFromHtml"
    /\ IF ExtractThrows(htmlContent.doc, request.url)
       THEN HeadlessCaught(ExtractError(htmlContent.doc, request.url))
       ELSE /\ baseData' = [BaseDataWith(htmlContent.doc, request.url, siteSelectors)
                              EXCEPT !.url = request.url, !.error = Null, !.message = Null]
            /\ fetchMethod' = FM.headless_success_reparsed
            /\ operationStage' = "headless-closing"
            /\ awaiting' = "none"
            /\ UNCHANGED headlessErrorDetail
    /\ UNCHANGED <<playwrightBrowser, browserLaunches, htmlContent, newHtmlContent,
                   siteSelectors, pwResponse>>
    /\ HeadlessFrame

\* the browser when the close is left out
LeftOpen(browser) == browser
\* lines 315-318 and 707-709: if (playwrightBrowser) await playwrightBrowser.close()
AfterClose(browser) == "null"

\* the headless stage without its finally block: the browser stays as it is until the
\* handler's own finally
HeadlessClosingPostponed ==
    /\ Stage("headless-closing", "final-data-assembly")
    /\ UNCHANGED <<asmVars, clientVars, discoverVars, siteConfigurations, siteSelectors,
                   awaiting, pwResponse, request, htmlContent, newHtmlContent,
                   fetchMethod, axiosFetchError, baseData, useEffectiveHeadless,
                   headlessErrorDetail, playwrightBrowser, finalData, aiDecision, thrown,
                   response, axiosCalls, browserLaunches, aiCalls>>
\* lines 314-321: the finally block of the headless stage
HeadlessClosing ==
    /\ Stage("headless-closing", "final-data-assembly")
    /\ playwrightBrowser' = AfterClose(playwrightBrowser)
    /\ UNCHANGED <<asmVars, clientVars, discoverVars, siteConfigurations, siteSelectors,
                   awaiting, pwResponse, request, htmlContent, newHtmlContent,
                   fetchMethod, axiosFetchError, baseData, useEffectiveHeadless,
                   headlessErrorDetail, finalData, aiDecision, thrown, response,
                   axiosCalls, browserLaunches, aiCalls>>

\* lines 471-476: a fetch that ultimately failed is answered at once
AnswerOrAnalyse(final) ==
    IF FetchUltimatelyFailed(final, request.url)
    THEN /\ finalData' = [final EXCEPT !.aiDetectedType = "client_error",
                                       !.pageTypeGuess = "error"]
         /\ response' = [kind |-> "json", status |-> 200, body |-> finalData']
         /\ operationStage' = "global-finally-close-browser"
    ELSE /\ finalData' = final
         /\ operationStage' = "ai-analysis-decision"
         /\ UNCHANGED response

\* lines 324-476
FinalDataAssembly ==
    /\ operationStage = "final-data-assembly"
    /\ AnswerOrAnalyse(AssembleFinal(baseData, request.url, htmlContent, fetchMethod,
                                     headlessErrorDetail, axiosFetchError))
    /\ UNCHANGED <<asmVars, clientVars, discoverVars, siteConfigurations, siteSelectors,
                   awaiting, pwResponse, request, htmlContent, newHtmlContent,
                   fetchMethod, axiosFetchError, baseData, useEffectiveHeadless,
                   headlessErrorDetail, playwrightBrowser, aiDecision, thrown,
                   axiosCalls, browserLaunches, aiCalls>>

\* lines 478-528 and 656-661
AiAnalysisDecision ==
    /\ operationStage = "ai-analysis-decision"
    /\ perform_AI_analysis' = ShouldCallAI(finalData)
    /\ ai_task_description' = AiTaskDescription(finalData)
    /\ IF perform_AI_analysis'
       THEN operationStage' = "ai-call" /\ UNCHANGED finalData
       ELSE operationStage' = "final-currency-mapping"
            /\ finalData' = WithoutAnalysis(finalData)
    /\ UNCHANGED <<asmVars, clientVars, discoverVars, siteConfigurations, siteSelectors,
                   awaiting, pwResponse, request, htmlContent, newHtmlContent,
                   fetchMethod, axiosFetchError, baseData, useEffectiveHeadless,
                   headlessErrorDetail, playwrightBrowser, aiResult, thrown, response, axiosCalls,
                   browserLaunches, aiCalls>>

\* lines 529-655
AiCall ==
    /\ Stage("ai-call", "final-currency-mapping")
    /\ aiCalls' = aiCalls + 1
    /\ aiResult' \in AiResults
    /\ finalData' = MergeAiResult(aiResult', finalData, request.url)
    /\ UNCHANGED <<asmVars, clientVars, discoverVars, siteConfigurations, siteSelectors,
                   awaiting, pwResponse, request, htmlContent, newHtmlContent,
                   fetchMethod, axiosFetchError, baseData, useEffectiveHeadless,
                   headlessErrorDetail, playwrightBrowser, perform_AI_analysis,
                   ai_task_description, thrown,
                   response, axiosCalls, browserLaunches>>

\* lines 663-684
FinalCurrencyMapping ==
    /\ Stage("final-currency-mapping", "global-finally-close-browser")
    /\ finalData' = WithErrorForced(WithCurrencyCode(finalData), fetchMethod,
                                    headlessErrorDetail, axiosFetchError)
    /\ response' = [kind |-> "json", status |-> 200, body |-> finalData']
    /\ UNCHANGED <<asmVars, clientVars, discoverVars, siteConfigurations, siteSelectors,
                   awaiting, pwResponse, request, htmlContent, newHtmlContent,
                   fetchMethod, axiosFetchError, baseData, useEffectiveHeadless,
                   headlessErrorDetail, playwrightBrowser, aiDecision, thrown,
                   axiosCalls, browserLaunches, aiCalls>>

\* lines 686-704: building the error response reads fetchMethod, a binding of the
\* try block that the catch block is outside of; the read throws a ReferenceError
\* and no response is returned
GlobalCatch ==
    /\ Stage("global-catch", "global-finally-close-browser")
    /\ thrown' = <<"f", "e", "t", "c", "h", "M", "e", "t", "h", "o", "d", " ", "i", "s", " ", "n",
            "o", "t", " ", "d", "e", "f", "i", "n", "e", "d">>
    /\ response' = [kind |-> "rejected", status |-> 0, body |-> UnsetFinal]
    /\ UNCHANGED <<asmVars, clientVars, discoverVars, siteConfigurations, siteSelectors,
                   awaiting, pwResponse, request, htmlContent, newHtmlContent,
                   fetchMethod, axiosFetchError, baseData, useEffectiveHeadless,
                   headlessErrorDetail, playwrightBrowser, finalData, aiDecision,
                   axiosCalls, browserLaunches, aiCalls>>

\* lines 705-711
GlobalFinally ==
    /\ Stage("global-finally-close-browser", "returned")
    /\ playwrightBrowser' = AfterClose(playwrightBrowser)
    /\ UNCHANGED <<asmVars, clientVars, discoverVars, siteConfigurations, siteSelectors,
                   awaiting, pwResponse, request, htmlContent, newHtmlContent,
                   fetchMethod, axiosFetchError, baseData, useEffectiveHeadless,
                   headlessErrorDetail, finalData, aiDecision, thrown, response,
                   axiosCalls, browserLaunches, aiCalls>>

Next ==
    \/ ParseRequest \/ HostnameExtraction \/ AutoSelectorDiscovery \/ AxiosFetch
    \/ InitialCheerioParse \/ StoredSelectorsRead \/ InitialExtraction \/ HeadlessDecision \/ HeadlessLaunch
    \/ HeadlessNewContext \/ HeadlessNewPage \/ HeadlessRoute \/ HeadlessGoto
    \/ HeadlessErrorContent \/ HeadlessWait \/ HeadlessContent \/ HeadlessReparse
    \/ HeadlessClosing \/ FinalDataAssembly
    \/ AiAnalysisDecision \/ AiCall \/ FinalCurrencyMapping \/ GlobalCatch \/ GlobalFinally

Spec == Init /\ [][Next]_vars


\* ------------------------------------------------------------------ discover-site-selectors/route.ts

MAX_SAMPLE_PAGES_FOR_DISCOVERY == 3
\* testSelectors: the three parts of a sample's score
FoundScore == 5
MultiplicityScore == 3
ValueScore == 2
\* scoreThreshold = 3.0
scoreThreshold == 3
\* the factor 0.01 of a found ratio of zero is 1 / ZeroRatioDivisor
ZeroRatioDivisor == 100

Target(key, multiple, relevantPageTypes) ==
    [key |-> key, multiple |-> multiple, relevantPageTypes |-> relevantPageTypes]
ContentPageTypes == {"product", "blog", "page", "category"}
TARGET_SELECTOR_KEYS ==
    << Target("title", FALSE, ContentPageTypes),
       Target("price", FALSE, {"product"}),
       Target("stockStatus", FALSE, {"product"}),
       Target("productImages", TRUE, {"product"}),
       Target("description", FALSE, ContentPageTypes),
       Target("features", TRUE, {"product"}),
       Target("productCategory", FALSE, {"product"}),
       Target("publishDate", FALSE, {"blog"}),
       Target("blogPageCategories", TRUE, {"blog"}),
       Target("navigationLinksContainers", FALSE, ContentPageTypes),
       Target("footerLinksContainers", FALSE, ContentPageTypes),
       Target("breadcrumbsContainers", FALSE, ContentPageTypes) >>
TargetKeys == { TARGET_SELECTOR_KEYS[i].key : i \in 1..Len(TARGET_SELECTOR_KEYS) }

\* lines 27-30: the route's own sanitizeText
sanitizeTextOfRoute(text) ==
    IF IsNil(text) THEN Null ELSE NullIfEmpty(Trim(CollapseRuns(text)))

\* String.prototype.trim on the selector and attribute names of the model's replies
PaddedNames == (" .price " :> ".price") @@ ("  " :> "") @@ (" src" :> "src")
TrimmedName(name) == IF name \in DOMAIN PaddedNames THEN PaddedNames[name] ELSE name

\* selectors cheerio rejects with an exception
InvalidSelectors == { "div[" }

\* lines 286-312, for the one selector each call is given
FitsMultiplicity(count, expectMultiple) ==
    (expectMultiple /\ count > 1) \/ (~expectMultiple /\ count = 1)
FirstValue(elements, targetAttr) ==
    IF targetAttr # "" THEN ElAttr(elements[1], targetAttr) ELSE elements[1].text
ScoreOfFound(elements, targetAttr, expectMultiple) ==
    FoundScore
    + (IF FitsMultiplicity(Len(elements), expectMultiple) THEN MultiplicityScore ELSE 0)
    + (IF sanitizeTextOfRoute(FirstValue(elements, targetAttr)) # Null THEN ValueScore ELSE 0)
TestResult(elements, targetAttr, expectMultiple) ==
    IF Len(elements) > 0
    THEN [score |-> ScoreOfFound(elements, targetAttr, expectMultiple),
          foundCount |-> Len(elements)]
    ELSE [score |-> 0, foundCount |-> 0]
testSelectors(doc, selector, targetAttr, expectMultiple) ==
    IF selector \in InvalidSelectors THEN [score |-> 0, foundCount |-> 0]
    ELSE TestResult(Q(doc, selector), targetAttr, expectMultiple)

\* lines 316-334
Has(doc, selector) == Len(Q(doc, selector)) > 0
QuickGuessFromDom(doc) ==
    IF Has(doc, "[itemprop=\"price\"]") \/ Has(doc, "form[action*=\"cart\"]")
       \/ Has(doc, "[class*=\"product-detail\"]") \/ Has(doc, "[id*=\"product-detail\"]")
    THEN "product"
    ELSE IF Has(doc, "article.post") \/ Has(doc, "[itemtype*=\"BlogPosting\"]")
            \/ Has(doc, "[class*=\"blog-post\"]")
    THEN "blog"
    ELSE IF (Has(doc, "[class*=\"product-list\"]") \/ Has(doc, "[class*=\"category-page\"]"))
            /\ Len(Q(doc, "[class*=\"product-item\"]")) > 2
    THEN "category"
    ELSE IF Has(doc, ".pagination")
            /\ (Len(Q(doc, "[class*=\"product-item\"]")) > 2
                \/ Len(Q(doc, "[class*=\"post-item\"]")) > 2)
    THEN "category"
    ELSE "unknown"
QuickGuessFromPath(path, search, doc) ==
    IF AnyIn(path, URL_PATTERNS.product) \/ AnyIn(search, URL_PATTERNS.product) THEN "product"
    ELSE IF AnyIn(path, URL_PATTERNS.blog) \/ AnyIn(search, URL_PATTERNS.blog) THEN "blog"
    ELSE IF AnyIn(path, URL_PATTERNS.category) \/ AnyIn(search, URL_PATTERNS.category)
    THEN "category"
    ELSE IF path = <<"/">> \/ AnyIn(path, URL_PATTERNS.staticPageKeywords) THEN "page"
    ELSE QuickGuessFromDom(doc)
QuickGuessOfUrl(u, doc) == QuickGuessFromPath(ToLower(u.pathname), ToLower(u.search), doc)
quickPageTypeGuess(pageUrl, doc) == QuickGuessOfUrl(ParseUrl(pageUrl), doc)

\* lines 350-379: samplePageUrls is a Set, kept here in insertion order
SetAdd(urls, u) == IF \E i \in 1..Len(urls) : urls[i] = u THEN urls ELSE Append(urls, u)
RECURSIVE AddEach(_, _)
AddEach(urls, more) ==
    IF more = <<>> THEN urls ELSE AddEach(SetAdd(urls, Head(more)), Tail(more))
SamplesMatching(sitemapUrls, patterns) ==
    Take(SelectSeq(sitemapUrls, LAMBDA u : AnyIn(u, patterns)), MAX_SAMPLE_PAGES_FOR_DISCOVERY)
RECURSIVE FilledUp(_, _)
FilledUp(urls, sitemapUrls) ==
    IF Len(urls) >= MAX_SAMPLE_PAGES_FOR_DISCOVERY \/ sitemapUrls = <<>> THEN urls
    ELSE FilledUp(SetAdd(urls, Head(sitemapUrls)), Tail(sitemapUrls))
WithTypedSamples(urls, sitemapUrls) ==
    AddEach(AddEach(AddEach(urls, SamplesMatching(sitemapUrls, URL_PATTERNS.product)),
                    SamplesMatching(sitemapUrls, URL_PATTERNS.blog)),
            SamplesMatching(sitemapUrls, URL_PATTERNS.category))
SamplePageUrls(siteUrlGiven, sitemapUrls) ==
    IF Len(sitemapUrls) > 0
    THEN FilledUp(WithTypedSamples(<<siteUrlGiven>>, sitemapUrls), sitemapUrls)
    ELSE <<siteUrlGiven>>

\* line 395
Sample(url, html) == [url |-> url, html |-> html, typeGuess |-> quickPageTypeGuess(url, html)]

\* lines 410-426: the sample shown to the model
FirstOfType(samples, type) ==
    IF \E i \in 1..Len(samples) : samples[i].typeGuess = type
    THEN CHOOSE i \in 1..Len(samples) :
            /\ samples[i].typeGuess = type
            /\ \A j \in 1..(i - 1) : samples[j].typeGuess # type
    ELSE 0
RepresentativeIndex(samples) ==
    IF FirstOfType(samples, "product") # 0 THEN FirstOfType(samples, "product")
    ELSE IF FirstOfType(samples, "blog") # 0 THEN FirstOfType(samples, "blog")
    ELSE IF FirstOfType(samples, "category") # 0 THEN FirstOfType(samples, "category")
    ELSE 1

\* lines 205-265: what is kept of a reply. A reply that fails, cannot be parsed or is
\* no object gives the empty mapping, and so does one without a valid candidate
Candidate(selector, attr) == [selector |-> selector, attr |-> attr]
IsValidCandidate(cand) == TrimmedName(cand.selector) # ""
TrimmedCandidate(cand) == Candidate(TrimmedName(cand.selector), TrimmedName(cand.attr))
ValidCandidates(cands) ==
    [i \in 1..Len(SelectSeq(cands, IsValidCandidate)) |->
        TrimmedCandidate(SelectSeq(cands, IsValidCandidate)[i])]
ValidKeys(parsed) ==
    { k \in TargetKeys \cap DOMAIN parsed : ValidCandidates(parsed[k]) # <<>> }
ValidatedSelectors(parsed) == [k \in ValidKeys(parsed) |-> ValidCandidates(parsed[k])]
askAiForAllTargetSelectors(reply) ==
    IF reply.ok THEN ValidatedSelectors(reply.parsed) ELSE NoSelectors

\* lines 447-473: a candidate against the samples of its target
IsRelevantSample(target, sample) ==
    target.relevantPageTypes = {} \/ sample.typeGuess \in target.relevantPageTypes
    \/ sample.typeGuess = "unknown"
relevantSamples(target, samples) ==
    SelectSeq(samples, LAMBDA s : IsRelevantSample(target, s))
samplesToScoreAgainst(target, samples) ==
    IF Len(relevantSamples(target, samples)) > 0 THEN relevantSamples(target, samples)
    ELSE samples
RECURSIVE cumulativeScore(_, _, _)
cumulativeScore(candidate, multiple, samples) ==
    IF samples = <<>> THEN 0
    ELSE testSelectors(Head(samples).html, candidate.selector, candidate.attr, multiple).score
         + cumulativeScore(candidate, multiple, Tail(samples))
RECURSIVE foundInRelevantSamplesCount(_, _, _)
foundInRelevantSamplesCount(candidate, multiple, samples) ==
    IF samples = <<>> THEN 0
    ELSE (IF testSelectors(Head(samples).html, candidate.selector, candidate.attr,
                           multiple).foundCount > 0 THEN 1 ELSE 0)
         + foundInRelevantSamplesCount(candidate, multiple, Tail(samples))

\* lines 476-478. With c the cumulative score, f the number of samples with a match and
\* n the number of samples, finalCandidateScore is (c / n) * sqrt(f / n), or
\* (c / n) * 0.01 when f is 0. Scores are not negative, so they compare as their squares
\* do, and the square is a fraction over ZeroRatioDivisor^2 * n^3 with this numerator:
ScoreSquared(c, f, n) ==
    IF f > 0 THEN c * c * f * ZeroRatioDivisor * ZeroRatioDivisor ELSE c * c * n
finalCandidateScore(candidate, multiple, samples) ==
    ScoreSquared(cumulativeScore(candidate, multiple, samples),
                 foundInRelevantSamplesCount(candidate, multiple, samples), Len(samples))
\* the square of a score of s, over the same denominator
SquareOf(s, n) == s * s * ZeroRatioDivisor * ZeroRatioDivisor * n * n * n

\* lines 445-490: the index of bestSelectorDetails among the candidates, 0 for null; a
\* later candidate replaces the best one only with a greater score
RECURSIVE BestFromLatest(_, _, _)
BestFromLatest(scores, i, best) ==
    IF i > Len(scores) THEN best
    ELSE BestFromLatest(scores, i + 1,
                        IF best = 0 \/ scores[i] >= scores[best] THEN i ELSE best)
RECURSIVE BestFrom(_, _, _)
BestFrom(scores, i, best) ==
    IF i > Len(scores) THEN best
    ELSE BestFrom(scores, i + 1, IF best = 0 \/ scores[i] > scores[best] THEN i ELSE best)
CandidateScores(candidates, multiple, samples) ==
    [i \in 1..Len(candidates) |-> finalCandidateScore(candidates[i], multiple, samples)]
bestSelectorDetails(candidates, multiple, samples) ==
    IF samples = <<>> THEN 0 ELSE BestFrom(CandidateScores(candidates, multiple, samples), 1, 0)

\* lines 493-503
AboveThresholdOrNot(score, n) == score >= 0
AboveThreshold(score, n) == score > SquareOf(scoreThreshold, n)
BestAccepted(candidates, multiple, samples) ==
    /\ bestSelectorDetails(candidates, multiple, samples) # 0
    /\ AboveThreshold(CandidateScores(candidates, multiple, samples)[
                          bestSelectorDetails(candidates, multiple, samples)], Len(samples))
BestRule(candidates, multiple, samples) ==
    Cfg(candidates[bestSelectorDetails(candidates, multiple, samples)].selector,
        candidates[bestSelectorDetails(candidates, multiple, samples)].attr)
WithBest(final, target, candidates, samples) ==
    IF BestAccepted(candidates, target.multiple, samples)
    THEN (target.key :> << BestRule(candidates, target.multiple, samples) >>) @@ final
    ELSE final
\* lines 433-508, one target of the loop
AfterTarget(final, target, proposed, samples) ==
    IF target.key \in DOMAIN proposed
    THEN WithBest(final, target, proposed[target.key], samplesToScoreAgainst(target, samples))
    ELSE final

\* prisma.siteConfiguration.upsert (config.ts, storeSiteSelectors)
storeSiteSelectors(st, hostname, selectors) == (hostname :> selectors) @@ st

StoredMessage(hostname) ==
    <<"S", "e", "ç", "i", "c", "i", "l", "e", "r", " ">> \o hostname \o <<" ", "i", "ç", "i", "n",
            " ", "t", "e", "s", "p", "i", "t", " ", "e", "d", "i", "l", "d", "i", " ", "v", "e",
                    " ", "k", "a", "y", "d", "e", "d", "i", "l", "d", "i", ".">>
NotFoundMessage(hostname) ==
    <<"O", "t", "o", "m", "a", "t", "i", "k", " ", "s", "e", "ç", "i", "c", "i", " ", "b", "u",
            "l", "u", "n", "a", "m", "a", "d", "i", ":", " ">> \o hostname
    \o <<".", " ", "G", "e", "n", "e", "l", " ", "s", "e", "ç", "i", "c", "i", "l", "e", "r", " ",
            "k", "u", "l", "l", "a", "n", "i", "l", "a", "c", "a", "k", " ", "v", "e", "y", "a",
                    " ", "m", "a", "n", "u", "e", "l", " ", "g", "i", "r", "i", "s", " ", "g",
                            "e", "r", "e", "k", "e", "b", "i", "l", "i", "r", ".">>

\* ------------------------------------------------------------------ a discovery run, step by step

UrlProductX2 == <<"h", "t", "t", "p", "s", ":", "/", "/", "s", "h", "o", "p", ".", "t", "e", "s",
        "t", "/", "p", "r", "o", "d", "u", "c", "t", "/", "x", "2">>
DiscoverUrls == { Undef, <<>>, UrlMalformed, UrlRoot, UrlPlain }

Doc(sel) == [sel |-> sel]
SiteChrome ==
    ("header nav" :> << El(<<"K", "e", "t", "t", "l", "e", "s", " ", " ", "P", "a", "n",
            "s">>) >>) @@ ("footer" :> << El(<<"A", "b", "o", "u", "t", " ", "u", "s">>) >>)
HomeDoc ==
    Doc(("h1" :> << El(<<"S", "h", "o", "p", " ", "T", "e", "s",
            "t">>) >>) @@ (".headline" :> << El(<<"S", "h", "o", "p", " ", "T", "e", "s", "t">>) >>)
        @@ SiteChrome)
ProductDocA ==
    Doc(("h1" :> << El(<<"B", "l", "u", "e", " ", "k", "e", "t", "t", "l",
            "e">>) >>) @@ (".headline" :> << El(<<"B", "l", "u", "e", " ", "k", "e", "t", "t",
                    "l", "e">>) >>)
        @@ (".price" :> << El(<<" ", "1", "4", "9", ",", "9", "0", " ", "T", "L", " ">>) >>)
        @@ (".gallery img" :> << ElA("src", <<"/", "i", "m", "g", "/", "a", ".", "j", "p",
                "g">>), ElA("src", <<"/", "i", "m", "g", "/", "b", ".", "j", "p", "g">>) >>)
        @@ (".stock" :> << El(<<" ", " ">>) >>)
        @@ (".tag" :> << El(<<"n", "e", "w">>), El(<<"s", "a", "l", "e">>) >>)
        @@ SiteChrome)
ProductDocB ==
    Doc(("h1" :> << El(<<"R", "e", "d", " ", "p", "a", "n">>) >>) @@ (".headline" :> << El(<<"R",
            "e", "d", " ", "p", "a", "n">>) >>)
        @@ (".price-new" :> << El(<<"8", "9", ",", "0", "0", " ", "T", "L">>) >>)
        @@ (".gallery img" :> << ElA("src", <<"/", "i", "m", "g", "/", "c", ".", "j", "p",
                "g">>) >>)
        @@ (".tag" :> << El(<<"n", "e", "w">>) >>)
        @@ SiteChrome)
BlogDoc ==
    Doc(("h1" :> << El(<<"S", "h", "o", "p", " ", "T", "e", "s", "t">>), El(<<"T", "e", "a", " ",
            "a", "t", " ", "h", "o", "m", "e">>) >>)
        @@ (".headline" :> << El(<<"T", "e", "a", " ", "a", "t", " ", "h", "o", "m", "e">>) >>)
        @@ ("time" :> << ElTA(<<"1", " ", "J", "u", "n", "e">>, "datetime", <<"2", "0", "2", "4",
                "-", "0", "6", "-", "0", "1">>) >>)
        @@ ("article.post" :> << El(<<"T", "e", "a", " ", "i", "s", " ", "b", "e", "s", "t", " ",
                "m", "a", "d", "e", " ", "i", "n", " ", "a", " ", "k", "e", "t", "t", "l", "e",
                        ".">>) >>))
PlainDoc == Doc(("h1" :> << El(<<"F", "o", "r", "t", "y", "-", "t", "w", "o">>) >>) @@ SiteChrome)
PlainProductDoc ==
    Doc(("h1" :> << El(<<"G", "r", "e", "e", "n", " ", "c", "u",
            "p">>) >>) @@ (".price" :> << El(<<"1", "2", ",", "0", "0", " ", "T",
                    "L">>), El(<<"1", "5", ",", "0", "0", " ", "T", "L">>) >>)
        @@ ("[itemprop=\"price\"]" :> << ElA("content", <<"1", "2", ".", "0", "0">>) >>))

\* what a GET of a sample URL can answer with; a failed request answers with nothing
PagesAt(url) ==
    IF url = UrlRoot THEN { HomeDoc }
    ELSE IF url = UrlProductPath THEN { ProductDocA }
    ELSE IF url = UrlProductX2 THEN { ProductDocB }
    ELSE IF url = UrlBlogPath THEN { BlogDoc }
    ELSE IF url = UrlPlain THEN { PlainDoc, PlainProductDoc }
    ELSE {}

\* what fetchAndParseSitemap can give for the site
SitemapOutcomes ==
    { [ok |-> FALSE, urls |-> <<>>],
      [ok |-> TRUE, urls |-> <<>>],
      [ok |-> TRUE, urls |-> << UrlProductPath, UrlProductX2, UrlBlogPath, UrlPlain >>],
      [ok |-> TRUE, urls |-> << UrlPlain, UrlRoot, UrlBlogPath >>],
      [ok |-> TRUE, urls |-> << UrlPlain, UrlProductPath >>] }

Text(selector) == Candidate(selector, "")
Reply(parsed) == [ok |-> TRUE, parsed |-> parsed]
\* what the one request to the model can come back with
GeminiReplies ==
    { [ok |-> FALSE, parsed |-> NoSelectors],
      Reply(("title" :> << Text(".nope"), Text("h1"), Text(".headline") >>)
            @@ ("price" :> << Text(" .price "), Text(".price-new") >>)
            @@ ("stockStatus" :> << Text(".stock") >>)
            @@ ("productImages" :> << Candidate(".gallery img", " src") >>)
            @@ ("features" :> << Text("  "), Text("") >>)
            @@ ("publishDate" :> << Candidate("time", "datetime") >>)
            @@ ("navigationLinksContainers" :> << Text("header nav") >>)
            @@ ("sku" :> << Text(".sku") >>)),
      Reply(("title" :> << Text(".headline"), Text("h1") >>)
            @@ ("price" :> << Text(".price-new"), Text(".price") >>)
            @@ ("stockStatus" :> << Text(".stock") >>)
            @@ ("productImages" :> << Text(".gallery img") >>)
            @@ ("blogPageCategories" :> << Text(".tag") >>)
            @@ ("footerLinksContainers" :> << Text("footer"), Text("div[") >>)),
      Reply(("title" :> << Text("div["), Text(".nope") >>)
            @@ ("price" :> << Text(".nope") >>)),
      Reply(("features" :> << Text("") >>) @@ ("sku" :> << Text(".sku") >>)) }

InitDiscover ==
    /\ AsmIdle
    /\ RouteIdle
    /\ DiscoverIdle
    /\ ClientIdle
    /\ siteConfigurations \in { NoProfiles, ShopProfile }

DiscoverStage(from, to) == discoverStage = from /\ discoverStage' = to

\* lines 337-352: the body is not JSON, carries no siteUrl, or carries one
DiscoverParseRequest ==
    /\ discoverStage = "init"
    /\ \E body \in {"invalid", "json"}, given \in DiscoverUrls :
          IF body = "invalid"
          THEN /\ discoverStage' = "threw"
               /\ UNCHANGED <<siteUrl, siteHostname, samplePageUrls, discoverResponse>>
          ELSE /\ siteUrl' = given
               /\ IF ~Truthy(given)
                  THEN /\ discoverStage' = "returned"
                       /\ discoverResponse' =
                             DiscoverResponse(400, <<"s", "i", "t", "e", "U", "r", "l", " ", "g",
                                     "e", "r", "e", "k", "l", "i", "d", "i", "r">>, Undef, Undef,
                                              NoSelectors)
                       /\ UNCHANGED <<siteHostname, samplePageUrls>>
                  ELSE IF ~ParseUrl(given).ok
                  THEN /\ discoverStage' = "returned"
                       /\ discoverResponse' =
                             DiscoverResponse(400, <<"G", "e", "ç", "e", "r", "s", "i", "z", " ",
                                     "s", "i", "t", "e", "U", "r", "l">>, Undef, Undef,
                                              NoSelectors)
                       /\ UNCHANGED <<siteHostname, samplePageUrls>>
                  ELSE /\ discoverStage' = "sitemap"
                       /\ siteHostname' = ParseUrl(given).hostname
                       /\ samplePageUrls' = << given >>
                       /\ UNCHANGED discoverResponse
    /\ UNCHANGED <<asmVars, siteSelectors, clientVars, routeVars, siteConfigurations, sampleIndex, htmlSamples,
                   representativeSampleUrl, initialAiSelectors, targetIndex,
                   finalDiscoveredSelectors, aiRequests>>

\* lines 356-379: the sample URLs; a sitemap that cannot be read leaves the given URL
DiscoverSamples ==
    /\ DiscoverStage("sitemap", "fetch-samples")
    /\ \E sitemap \in SitemapOutcomes :
          samplePageUrls' = IF sitemap.ok THEN SamplePageUrls(siteUrl, sitemap.urls)
                            ELSE << siteUrl >>
    /\ UNCHANGED <<asmVars, siteSelectors, clientVars, routeVars, siteConfigurations, siteUrl, siteHostname, sampleIndex,
                   htmlSamples, representativeSampleUrl, initialAiSelectors, targetIndex,
                   finalDiscoveredSelectors, discoverResponse, aiRequests>>

\* lines 381-399, one sample of the loop: a request that fails is skipped
FetchSample ==
    /\ discoverStage = "fetch-samples"
    /\ sampleIndex <= Len(Take(samplePageUrls, MAX_SAMPLE_PAGES_FOR_DISCOVERY))
    /\ sampleIndex' = sampleIndex + 1
    /\ \/ \E html \in PagesAt(samplePageUrls[sampleIndex]) :
             htmlSamples' = Append(htmlSamples, Sample(samplePageUrls[sampleIndex], html))
       \/ UNCHANGED htmlSamples
    /\ UNCHANGED <<asmVars, siteSelectors, clientVars, routeVars, siteConfigurations, discoverStage, siteUrl, siteHostname,
                   samplePageUrls, representativeSampleUrl, initialAiSelectors, targetIndex,
                   finalDiscoveredSelectors, discoverResponse, aiRequests>>

\* lines 401-427: without a sample the run ends; otherwise one sample is chosen
SamplesFetched ==
    /\ discoverStage = "fetch-samples"
    /\ sampleIndex > Len(Take(samplePageUrls, MAX_SAMPLE_PAGES_FOR_DISCOVERY))
    /\ IF Len(htmlSamples) = 0
       THEN /\ discoverStage' = "returned"
            /\ discoverResponse' =
                  DiscoverResponse(500,
                                   <<"Ö", "r", "n", "e", "k", " ", "s", "a", "y", "f", "a", "l",
                                           "a", "r", " ", "ç", "e", "k", "i", "l", "e", "m", "e",
                                                   "d", "i", ",", " ", "s", "e", "ç", "i", "c",
                                                           "i", " ", "t", "e", "s", "p", "i", "t",
                                                                   "i", " ", "y", "a", "p", "i",
                                                                           "l", "a", "m", "i",
                                                                                   "y", "o", "r",
                                                                                           ".">>,
                                   Undef, Undef, NoSelectors)
            /\ UNCHANGED representativeSampleUrl
       ELSE /\ discoverStage' = "ask-ai"
            /\ representativeSampleUrl' = htmlSamples[RepresentativeIndex(htmlSamples)].url
            /\ UNCHANGED discoverResponse
    /\ UNCHANGED <<asmVars, siteSelectors, clientVars, routeVars, siteConfigurations, siteUrl, siteHostname,
                   samplePageUrls, sampleIndex, htmlSamples, initialAiSelectors, targetIndex,
                   finalDiscoveredSelectors, aiRequests>>

\* line 430: the one request for all targets
AskAi ==
    /\ DiscoverStage("ask-ai", "test-candidates")
    /\ aiRequests' = aiRequests + 1
    /\ \E reply \in GeminiReplies : initialAiSelectors' = askAiForAllTargetSelectors(reply)
    /\ UNCHANGED <<asmVars, siteSelectors, clientVars, routeVars, siteConfigurations, siteUrl, siteHostname,
                   samplePageUrls, sampleIndex, htmlSamples, representativeSampleUrl,
                   targetIndex, finalDiscoveredSelectors, discoverResponse>>

\* lines 433-508, one target of the loop, asking the model again for its candidates
TestTargetAskingAgain ==
    /\ discoverStage = "test-candidates"
    /\ targetIndex <= Len(TARGET_SELECTOR_KEYS)
    /\ targetIndex' = targetIndex + 1
    /\ aiRequests' = aiRequests + 1
    /\ finalDiscoveredSelectors' =
          AfterTarget(finalDiscoveredSelectors, TARGET_SELECTOR_KEYS[targetIndex],
                      initialAiSelectors, htmlSamples)
    /\ UNCHANGED <<asmVars, siteSelectors, clientVars, routeVars, siteConfigurations, discoverStage, siteUrl, siteHostname,
                   samplePageUrls, sampleIndex, htmlSamples, representativeSampleUrl,
                   initialAiSelectors, discoverResponse>>
\* lines 433-508, one target of the loop: its candidates are tested on the samples
TestTarget ==
    /\ discoverStage = "test-candidates"
    /\ targetIndex <= Len(TARGET_SELECTOR_KEYS)
    /\ targetIndex' = targetIndex + 1
    /\ finalDiscoveredSelectors' =
          AfterTarget(finalDiscoveredSelectors, TARGET_SELECTOR_KEYS[targetIndex],
                      initialAiSelectors, htmlSamples)
    /\ UNCHANGED <<asmVars, siteSelectors, clientVars, routeVars, siteConfigurations, discoverStage, siteUrl, siteHostname,
                   samplePageUrls, sampleIndex, htmlSamples, representativeSampleUrl,
                   initialAiSelectors, discoverResponse, aiRequests>>

\* lines 510-525: a mapping with a key is stored, an upsert that fails being logged
\* (config.ts, storeSiteSelectors); a mapping without a key is only reported
StoreSelectors ==
    /\ discoverStage = "test-candidates"
    /\ targetIndex > Len(TARGET_SELECTOR_KEYS)
    /\ discoverStage' = "returned"
    /\ IF DOMAIN finalDiscoveredSelectors # {}
       THEN /\ \E upserted \in BOOLEAN :
                  siteConfigurations' =
                     IF upserted
                     THEN storeSiteSelectors(siteConfigurations, siteHostname,
                                             finalDiscoveredSelectors)
                     ELSE siteConfigurations
            /\ discoverResponse' =
                  DiscoverResponse(200, Undef, StoredMessage(siteHostname), siteHostname,
                                   finalDiscoveredSelectors)
       ELSE /\ discoverResponse' =
                  DiscoverResponse(200, Undef, NotFoundMessage(siteHostname), siteHostname,
                                   NoSelectors)
            /\ UNCHANGED siteConfigurations
    /\ UNCHANGED <<asmVars, siteSelectors, clientVars, routeVars, siteUrl, siteHostname, samplePageUrls, sampleIndex,
                   htmlSamples, representativeSampleUrl, initialAiSelectors, targetIndex,
                   finalDiscoveredSelectors, aiRequests>>

NextDiscover ==
    \/ DiscoverParseRequest \/ DiscoverSamples \/ FetchSample \/ SamplesFetched \/ AskAi
    \/ TestTarget \/ StoreSelectors

SpecDiscover == InitDiscover /\ [][NextDiscover]_vars

\* ------------------------------------------------------------------ the handler of unnamed/part_003
\* The second scrape-ai handler renders every page in the browser and asks its own
\* model for the whole record. Its locals are held in the variables of the first:
\* htmlContent is htmlContentForCheerio, headlessErrorDetail is fetchErrorDetail,
\* playwrightBrowser is browser (the page, pwPage, is opened after it and closed before
\* it), perform_AI_analysis is canRunCustomAI, aiResult is customAiExtractedData and
\* response is errorResponse from the moment the catch block builds it. awaiting names
\* the await the handler is suspended at, "none" where a stage starts, and "catch" while
\* an exception is on its way to the catch block of line 679. An item's image is the
\* list of its URLs.
\* The file is modelled as it stands: it uses geminiModelForCustomAI and
\* PrismaScrapedPageType without declaring or importing them, and imports
\* mapCurrencySymbolToCode and resolveUrl from scraper-utils.ts, which exports neither.

\* line 431
CustomMinText == 100
CustomMinHtml == 500

PW == [pending |-> <<"p", "l", "a", "y", "w", "r", "i", "g", "h", "t", "_", "p", "e", "n", "d",
        "i", "n", "g">>,
       success |-> <<"p", "l", "a", "y", "w", "r", "i", "g", "h", "t", "_", "s", "u", "c", "c",
               "e", "s", "s", "_", "p", "a", "g", "e", "_", "r", "e", "a", "d", "y">>,
       failed_navigation |-> <<"p", "l", "a", "y", "w", "r", "i", "g", "h", "t", "_", "f", "a",
               "i", "l", "e", "d", "_", "n", "a", "v", "i", "g", "a", "t", "i", "o", "n">>,
       failed_exception |-> <<"p", "l", "a", "y", "w", "r", "i", "g", "h", "t", "_", "f", "a",
               "i", "l", "e", "d", "_", "e", "x", "c", "e", "p", "t", "i", "o", "n">>]

\* String.prototype.replace(pattern, replacement) for a pattern that is a string
ReplaceFirstText(s, pattern, replacement) ==
    IF Includes(s, pattern)
    THEN Take(s, IndexOf(s, pattern)) \o replacement \o Drop(s, IndexOf(s, pattern) + Len(pattern))
    ELSE s

\* lines 389-396
CustomInitialData(url, fetchErrorDetail) ==
    [UnsetData EXCEPT
        !.url = url, !.error = fetchErrorDetail,
        !.message = IF Truthy(fetchErrorDetail) THEN Take(fetchErrorDetail, MessageLimit)
                    ELSE Null,
        !.images = L(<<>>), !.navigationLinks = L(<<>>), !.footerLinks = L(<<>>),
        !.breadcrumbs = L(<<>>), !.jsonLdData = L(<<>>), !.schemaOrgTypes = L(<<>>)]
\* { ...a, ...b } on one key: a key that b lacks keeps the value of a
SpreadOver(a, b) == IF b = Undef THEN a ELSE b
\* lines 400-406: the assembled record spread over the initial one; the assembler sets
\* neither error nor message, so both stay as the initial record has them
CustomWithCheerioData(initial, cheerioData, url) ==
    [cheerioData EXCEPT
        !.url = url,
        !.error = SpreadOver(initial.error, cheerioData.error),
        !.message = IF Truthy(SpreadOver(initial.error, cheerioData.error))
                    THEN Or(SpreadOver(initial.message, cheerioData.message),
                            Take(SpreadOver(initial.error, cheerioData.error), MessageLimit))
                    ELSE SpreadOver(initial.message, cheerioData.message)]
\* lines 412-416: the assembler threw
CustomCheerioFailed(initial, message) ==
    [initial EXCEPT
        !.error = <<"C", "h", "e", "e", "r", "i", "o", " ", "e", "x", "t", "r", "a", "c", "t",
                "i", "o", "n", " ", "f", "a", "i", "l", "e", "d", ":", " ">> \o message,
        !.message = <<"C", "h", "e", "e", "r", "i", "o", ":",
                " ">> \o Take(message, HeadlessMessageLimit)]
\* lines 417-424: no HTML, or a fetch error
CustomWithoutHtml(initial, fetchErrorDetail, hasHtml) ==
    [initial EXCEPT
        !.pageTypeGuess = IF Truthy(fetchErrorDetail) THEN "error" ELSE "unknown",
        !.title = IF Truthy(fetchErrorDetail) THEN <<"I", "ç", "e", "r", "i", "k", " ", "A", "l",
                "i", "n", "a", "m", "a", "d", "i">> ELSE <<"B", "a", "s", "l", "i", "k", " ", "Y",
                        "o", "k">>,
        !.error = IF ~Truthy(initial.error) /\ ~hasHtml
                  THEN <<"N", "o", " ", "H", "T", "M", "L", " ", "c", "o", "n", "t", "e", "n",
                          "t", " ", "o", "b", "t", "a", "i", "n", "e", "d", " ", "f", "r", "o",
                                  "m", " ", "P", "l", "a", "y", "w", "r", "i", "g", "h", "t", " ",
                                          "f", "o", "r", " ", "C", "h", "e", "e", "r", "i", "o",
                                                  " ", "p", "r", "o", "c", "e", "s", "s", "i",
                                                          "n", "g", ".">>
                  ELSE initial.error,
        !.message = IF ~Truthy(initial.error) /\ ~hasHtml
                    THEN <<"N", "o", " ", "H", "T", "M", "L", " ", "f", "o", "r", " ", "C", "h",
                            "e", "e", "r", "i", "o", ".">> ELSE initial.message]
\* htmlContentForCheerio is a string that is not empty
HasHtml(html) == html.k = "html" /\ html.doc.len > 0
\* lines 430-431
canRunCustomAI(html, base) ==
    /\ HasHtml(html)
    /\ ~Truthy(base.error)
    /\ (TextLen(base.mainTextContent) > CustomMinText \/ html.doc.len > CustomMinHtml)

\* lines 152-188: what callCustomGeminiAI hands back on a failure
CustomAiFailure(message) == [AiAnswer("") EXCEPT !.error = message]
\* line 155 reads geminiModelForCustomAI, which the file never declares: the read throws
\* inside the try of line 154
GeminiModelUnbound == <<"g", "e", "m", "i", "n", "i", "M", "o", "d", "e", "l", "F", "o", "r", "C",
        "u", "s", "t", "o", "m", "A", "I", " ", "i", "s", " ", "n", "o", "t", " ", "d", "e", "f",
                "i", "n", "e", "d">>
\* lines 182-187: the catch block of the call turns the exception into an answer
callCustomGeminiAI == CustomAiFailure(<<"C", "u", "s", "t", "o", "m", " ", "A", "I", " ", "(",
        "G", "e", "m", "i", "n", "i", ")", " ", "c", "a", "l", "l", " ", "f", "a", "i", "l", "e",
                "d", ":", " ">> \o GeminiModelUnbound)

\* customAiExtractedData?.x: the answer, or an object without a field when it is null
AnswerOrNone(ran, ai) == IF ran THEN ai ELSE AiAnswer("")
\* a || b on page types
TypeOr(a, b) == IF a \notin {"", "undefined"} THEN a ELSE b
\* lines 540 and 588: a text of the answer that is used
UsableAnswer(v) == Truthy(v) /\ ToLower(v) # <<"n", "u", "l", "l">> /\ Trim(v) # <<>>

\* item['@type'] === name
TypeIs(item, name) == ~item.typeIsArray /\ item.types = <<name>>
\* Array.isArray(item['@type']) && item['@type'].includes(name)
TypeIncludes(item, name) ==
    item.typeIsArray /\ \E i \in 1..Len(item.types) : item.types[i] = name
\* Array.prototype.find over baseData.jsonLdData, when there is one
LdFound(ldData, Test(_)) ==
    IF ldData.k # "list" THEN NoItem ELSE FirstOr(SelectSeq(ldData.v, Test), NoItem)
\* line 525
jsonLdProductInfo(base) ==
    LdFound(base.jsonLdData,
            LAMBDA item : TypeIs(item, <<"P", "r", "o", "d", "u", "c",
                    "t">>) \/ TypeIncludes(item, <<"P", "r", "o", "d", "u", "c", "t">>))
\* line 526: an array of types is searched for BlogPosting only
jsonLdBlogPostInfo(base) ==
    LdFound(base.jsonLdData,
            LAMBDA item : \/ TypeIs(item, <<"B", "l", "o", "g", "P", "o", "s", "t", "i", "n", "g">>)
                          \/ TypeIncludes(item, <<"B", "l", "o", "g", "P", "o", "s", "t", "i",
                                  "n", "g">>)
                          \/ TypeIs(item, <<"A", "r", "t", "i", "c", "l", "e">>))

\* lines 589-591
AvailabilityLabel(availability) ==
    IF IsNil(availability) THEN Undef
    ELSE ReplaceFirstText(ReplaceFirstText(ReplaceFirstText(availability,
                                                            <<"h", "t", "t", "p", ":", "/", "/",
                                                                    "s", "c", "h", "e", "m", "a",
                                                                            ".", "o", "r", "g",
                                                                                    "/">>, <<>>),
                                           <<"I", "n", "S", "t", "o", "c", "k">>, <<"M", "e", "v",
                                                   "c", "u", "t">>),
                          <<"O", "u", "t", "O", "f", "S", "t", "o", "c", "k">>, <<"T", "ü", "k",
                                  "e", "n", "d", "i">>)

\* lines 518 and 527-530
finalAiDetectedTypeActual(ai, base) == TypeOr(ai.detectedPageType, base.pageTypeGuess)
finalDetectedTypeForApiResponse(ai, base) ==
    IF finalAiDetectedTypeActual(ai, base) = "staticPage" THEN "page"
    ELSE finalAiDetectedTypeActual(ai, base)

\* lines 569-583
CustomExtracted(ok, ai, base, ldProduct, ldBlog) ==
    IF ok THEN Extracted(TypeOr(finalDetectedTypeForApiResponse(ai, base), "unknown"), Undef)
    ELSE IF Truthy(base.error) THEN Extracted("error", base.error)
    ELSE IF Truthy(ai.error) THEN Extracted("ai_error", ai.error)
    ELSE IF ldProduct.present THEN Extracted("product", Undef)
    ELSE IF ldBlog.present THEN Extracted("blogPost", Undef)
    ELSE FinalExtras.aiExtractedData

\* a value of the answer that only counts for its page type
OfType(ai, base, type, value) ==
    IF finalAiDetectedTypeActual(ai, base) = type THEN value ELSE Null

\* a || b on lists: a list is truthy, whatever its length
ListOr(a, b) == IF a.k = "list" THEN a ELSE b
\* a list that only counts for its page type
ListOfType(ai, base, type, list) ==
    IF finalAiDetectedTypeActual(ai, base) = type THEN list ELSE LNull
\* line 549: image[0] of an item's image
LdImage(item) == IF item.image = <<>> THEN Undef ELSE item.image[1]
\* line 596: additionalProperty?.map(p => `${p.name || p.propertyID || 'Özellik'}: ${p.value}`)
LdFeatures(item) ==
    IF item.additionalProperty.k # "list" THEN LUndef
    ELSE L(Map(item.additionalProperty.v,
               LAMBDA p : Or(p.name, Or(p.propertyID, <<"Ö", "z", "e", "l", "l", "i",
                       "k">>)) \o <<":", " ">> \o Str(p.value)))
\* line 603: the keywords of an item as they are when a list, else split at the commas
LdTags(item) ==
    IF item.keywords.k = "list" THEN item.keywords
    ELSE L(SelectSeq(Map(SplitAt(IF item.keywords.k = "text" THEN item.keywords.v ELSE <<>>,
                                 {","}),
                         Trim),
                     LAMBDA k : k # <<>>))
\* lines 609-611: the categories of the answer joined, when they are a list
JoinedCategories(info) ==
    IF info.categoriesFromPage.k = "list" THEN JoinWith(info.categoriesFromPage.v, <<",", " ">>)
    ELSE Null
\* lines 613-615
CustomProductCategory(ai, base) ==
    IF /\ finalAiDetectedTypeActual(ai, base) = "product"
       /\ ai.productInfo.categoriesFromPage.k = "list"
       /\ ai.productInfo.categoriesFromPage.v # <<>>
    THEN JoinWith(ai.productInfo.categoriesFromPage.v, <<" ", ">", " ">>)
    ELSE base.productCategory
\* lines 617-623
CustomBlogCategories(ai, base, ldBlog) ==
    OrList(ListOfType(ai, base, "blogPost", ai.blogPostInfo.categoriesFromPage),
           OrList(ldBlog.articleSection, base.blogCategories))

\* lines 535-623 with the failure of the model kept out of error and message
CustomFinalFieldsWithoutAiError(ok, ai, base, ldProduct, ldBlog, method, html) ==
    Final([base EXCEPT
             !.title = Or(ai.pageTitle, base.title),
             !.metaDescription = IF UsableAnswer(ai.metaDescription) THEN ai.metaDescription
                                 ELSE base.metaDescription,
             !.ogTitle = Or(ai.pageTitle, Or(ldProduct.name, Or(ldBlog.headline, base.ogTitle))),
             !.ogDescription = IF UsableAnswer(ai.metaDescription) THEN ai.metaDescription
                               ELSE Or(ldProduct.description,
                                       Or(ldBlog.description, base.ogDescription)),
             !.price = Or(ai.productInfo.price,
                          Or(FirstOffer(ldProduct.offers).price, base.price)),
             !.currencyCode = Or(ai.productInfo.currency,
                                 Or(FirstOffer(ldProduct.offers).priceCurrency,
                                    base.currencyCode)),
             !.stockStatus = IF UsableAnswer(ai.productInfo.stockStatus)
                             THEN ai.productInfo.stockStatus
                             ELSE Or(AvailabilityLabel(FirstOffer(ldProduct.offers).availability),
                                     base.stockStatus),
             !.publishDate = Or(OfType(ai, base, "blogPost",
                                       Or(ai.blogPostInfo.publishDate, ldBlog.datePublished)),
                                Or(base.publishDate, base.date)),
             !.blogContentSample = Or(OfType(ai, base, "blogPost",
                                             Or(ai.blogPostInfo.summary, ldBlog.description)),
                                      base.blogContentSample),
             !.aiProductBrand = Or(OfType(ai, base, "product",
                                          Or(ai.productInfo.brand, ldProduct.brandName)),
                                   base.aiProductBrand),
             !.ogImage = Or(base.ogImage, Or(LdImage(ldProduct), LdImage(ldBlog))),
             !.features = ListOr(ListOfType(ai, base, "product",
                                            ListOr(ai.productInfo.features,
                                                   LdFeatures(ldProduct))),
                                 base.features),
             !.aiProductSku = Or(OfType(ai, base, "product",
                                        Or(ai.productInfo.sku,
                                           Or(ldProduct.sku, ldProduct.mpn))),
                                 base.aiProductSku),
             !.aiBlogAuthor = Or(OfType(ai, base, "blogPost",
                                        Or(ai.blogPostInfo.author, AuthorName(ldBlog.author))),
                                 Or(base.author, base.aiBlogAuthor)),
             !.aiBlogTags = ListOr(ListOfType(ai, base, "blogPost",
                                              ListOr(ai.blogPostInfo.tags, LdTags(ldBlog))),
                                   ListOr(base.blogTags, base.aiBlogTags)),
             !.aiCategoryDescription = Or(OfType(ai, base, "categoryPage",
                                                 ai.categoryPageInfo.description),
                                          base.aiCategoryDescription),
             !.category = Or(base.category,
                             Or(JoinedCategories(ai.productInfo),
                                JoinedCategories(ai.blogPostInfo))),
             !.productCategory = CustomProductCategory(ai, base),
             !.blogCategories = CustomBlogCategories(ai, base, ldBlog)],
          [FinalExtras EXCEPT
              !.blogPageCategories = CustomBlogCategories(ai, base, ldBlog),
              !.fetchMethod = method,
              !.rawHtmlLength = HtmlLen(html),
              !.aiDetectedType =
                 TypeOr(finalDetectedTypeForApiResponse(ai, base),
                        IF Truthy(base.error) THEN "error"
                        ELSE IF Truthy(ai.error) THEN "ai_error" ELSE "unknown"),
              !.aiExtractedData = CustomExtracted(ok, ai, base, ldProduct, ldBlog)])
\* lines 535-623
CustomFinalFields(ok, ai, base, ldProduct, ldBlog, method, html) ==
    [CustomFinalFieldsWithoutAiError(ok, ai, base, ldProduct, ldBlog, method, html) EXCEPT
        !.error = Or(base.error, ai.error),
        !.message = Or(base.message,
                       IF Truthy(ai.error) THEN Take(ai.error, MessageLimit) ELSE Null)]

\* lines 628-629
aiImagesRaw(ai, type) ==
    IF type = "product" /\ ai.productInfo.images.k = "list" THEN ai.productInfo.images.v
    ELSE IF type = "blogPost" /\ ai.blogPostInfo.images.k = "list" THEN ai.blogPostInfo.images.v
    ELSE <<>>
ListOf(list) == IF list.k = "list" THEN list.v ELSE <<>>
\* line 652: a list that is empty becomes null; images that are no list stay as they are
NullIfNone(images, before) ==
    IF images # <<>> THEN L(images) ELSE IF before.k = "list" THEN LNull ELSE before
CustomWithImages(final, base) ==
    [final EXCEPT !.images = NullIfNone(ListOf(base.images), base.images)]
\* lines 631-635: an entry of the answer's images that is a string with more than blanks
\* in it is handed to resolveUrl
CustomResolvesImage(ai, base) ==
    \E i \in 1..Len(aiImagesRaw(ai, finalAiDetectedTypeActual(ai, base))) :
        Trim(aiImagesRaw(ai, finalAiDetectedTypeActual(ai, base))[i]) # <<>>
\* line 656: a symbol without a code is handed to mapCurrencySymbolToCode
CustomMapsCurrency(final) == ~Truthy(final.currencyCode) /\ Truthy(final.currencySymbol)
\* lines 17-18: scraper-utils.ts exports neither name, so the imported binding is undefined
\* and the call throws a TypeError; its wording is the build's
NotAFunction(name) ==
    { name \o <<" ", "i", "s", " ", "n", "o", "t", " ", "a", " ", "f", "u", "n", "c", "t", "i",
            "o", "n">>,
      <<"(", "0", " ", ",", " ", "s", "c", "r", "a", "p", "e", "r", "_", "u", "t", "i", "l", "s",
              "_", "1", ".">> \o name \o <<")", " ", "i", "s", " ", "n", "o", "t", " ", "a", " ",
                      "f", "u", "n", "c", "t", "i", "o", "n">> }

\* lines 662-670
CustomErrorChecks(final) ==
    [final EXCEPT
       !.pageTypeGuess = IF Truthy(final.error) THEN "error" ELSE final.pageTypeGuess,
       !.aiDetectedType = IF Truthy(final.error)
                             /\ final.aiDetectedType \notin {"client_error", "ai_error"}
                          THEN "client_error" ELSE final.aiDetectedType]

\* lines 516-652, when no image is resolved
CustomAssembled(ran, ai, base, method, html) ==
    CustomWithImages(
        CustomFinalFields(ran /\ ~Truthy(ai.error), AnswerOrNone(ran, ai), base,
                          jsonLdProductInfo(base), jsonLdBlogPostInfo(base), method, html),
        base)
\* lines 656-670, when no code is mapped from the symbol
CustomFinalData(final) == CustomErrorChecks(SymbolUnlessCode(final, final.currencyCode))
\* lines 516-670: the exception the assembly ends in, or null
CustomAssemblyErrors(ran, ai, base, method, html) ==
    IF CustomResolvesImage(AnswerOrNone(ran, ai), base) THEN NotAFunction(<<"r", "e", "s", "o",
            "l", "v", "e", "U", "r", "l">>)
    ELSE IF CustomMapsCurrency(CustomAssembled(ran, ai, base, method, html))
    THEN NotAFunction(<<"m", "a", "p", "C", "u", "r", "r", "e", "n", "c", "y", "S", "y", "m", "b",
            "o", "l", "T", "o", "C", "o", "d", "e">>)
    ELSE { Null }

\* lines 321-330
CustomClientError(url, message) ==
    [UnsetFinal EXCEPT !.url = url, !.error = message, !.pageTypeGuess = "client_error",
                       !.aiDetectedType = "client_error", !.title = <<"N", "/", "A">>]
\* lines 680-690: the fields the literal sets to null; siteSelectorsUsed and
\* rawHtmlLength, null there as well, stay FALSE and 0 here
CustomErrorResponse(url, stage, message, method) ==
    [UnsetFinal EXCEPT
        !.url = url,
        !.error = <<"G", "l", "o", "b", "a", "l", " ", "e", "r", "r", "o", "r", " ", "i", "n",
                " ", "P", "O", "S", "T", " ", "h", "a", "n", "d", "l", "e", "r", ":",
                        " ">> \o message,
        !.message = <<"E", "r", "r", "o", "r", " ", "a", "t", " ", "s", "t", "a", "g", "e",
                " ">> \o stage \o <<":", " ">> \o Take(message, MessageLimit),
        !.pageTypeGuess = "error", !.aiDetectedType = "client_error", !.title = <<"N", "/", "A">>,
        !.metaDescription = Null, !.ogType = Null, !.ogTitle = Null, !.ogDescription = Null,
        !.ogImage = Null, !.canonicalUrl = Null, !.jsonLdData = LNull,
        !.schemaOrgTypes = LNull, !.price = Null, !.currencySymbol = Null,
        !.currencyCode = Null, !.stockStatus = Null, !.images = LNull, !.category = Null,
        !.productCategory = Null, !.date = Null, !.publishDate = Null, !.features = LNull,
        !.blogContentSample = Null, !.blogCategories = LNull, !.blogPageCategories = LNull,
        !.headings = LNull, !.allLinks = LNull, !.internalLinks = LNull,
        !.externalLinks = LNull, !.navigationLinks = LNull, !.footerLinks = LNull,
        !.breadcrumbs = LNull, !.mainTextContent = Null, !.aiProductBrand = Null,
        !.aiProductSku = Null, !.aiBlogAuthor = Null, !.aiBlogTags = LNull,
        !.aiCategoryDescription = Null,
        !.fetchMethod = IF method = PW.pending THEN <<"u", "n", "k", "n", "o", "w", "n", "_", "e",
                "r", "r", "o", "r">> ELSE method,
        !.aiExtractedData = Extracted("error", <<"G", "l", "o", "b", "a", "l", " ", "e", "r", "r",
                "o", "r", ":", " ">> \o message)]

\* lines 348-354: the exception thrown when the chosen context has no launch function
LaunchMethodMissing == <<"P", "l", "a", "y", "w", "r", "i", "g", "h", "t", " ", "l", "a", "u",
        "n", "c", "h", " ", "m", "e", "t", "h", "o", "d", " ", "n", "o", "t", " ", "f", "o", "u",
                "n", "d", " ", "i", "n", " ", "t", "h", "e", " ", "s", "e", "l", "e", "c", "t",
                        "e", "d", " ", "c", "o", "n", "t", "e", "x", "t", ".">>
\* the message of a launch that rejects
LaunchRejected == <<"b", "r", "o", "w", "s", "e", "r", "T", "y", "p", "e", ".", "l", "a", "u",
        "n", "c", "h", ":", " ", "F", "a", "i", "l", "e", "d", " ", "t", "o", " ", "l", "a", "u",
                "n", "c", "h", " ", "c", "h", "r", "o", "m", "i", "u", "m">>
\* pwResponse && pwResponse.ok()
ResponseOk(r) == r = <<"2", "0", "0">>
\* lines 374-375
NavigationFailed(r) ==
    <<"P", "l", "a", "y", "w", "r", "i", "g", "h", "t", " ", "n", "a", "v", "i", "g", "a", "t",
            "i", "o", "n", " ", "f", "a", "i", "l", "e", "d", " ", "w", "i", "t", "h", " ", "s",
                    "t", "a", "t", "u", "s", ":", " ">> \o (IF Truthy(r) THEN r ELSE <<"u", "n",
                            "k", "n", "o", "w", "n">>)
\* what the browser renders for this handler
CustomPages(pageUrl) ==
    RenderedPages(pageUrl)
    \cup { Page(<<LdBlock(<<item>>)>>, NoElements, NoElements,
                "title" :> << El(<<"R", "e", "n", "d", "e", "r", "e", "d", " ", "p", "o", "s",
                        "t">>) >>, RenderedTextLen,
                LightHtmlLen + MinHtmlGain + 1) : item \in { BlogListed, BlogPostingListed } }
    \* a product page without JSON-LD: the price the profile of its host selects carries
    \* a currency sign, and nothing names a code
    \cup { Page(<<>>, NoElements, ProfilePriceMarkup, "title" :> << El(<<"R", "e", "n", "d", "e",
            "r", "e", "d", " ", "k", "e", "t", "t", "l", "e">>) >>,
                RenderedTextLen, LightHtmlLen + MinHtmlGain + 1) }
ScrapeIds == { Undef, <<"s", "c", "r", "a", "p", "e", "-", "1">> }
\* lines 203-217 and 231: toPrismaPageType reads PrismaScrapedPageType on each of its
\* paths, and the file never declares it: building prismaData throws before the store
\* is asked anything
PrismaTypeUnbound == <<"P", "r", "i", "s", "m", "a", "S", "c", "r", "a", "p", "e", "d", "P", "a",
        "g", "e", "T", "y", "p", "e", " ", "i", "s", " ", "n", "o", "t", " ", "d", "e", "f", "i",
                "n", "e", "d">>
\* operationStage as the catch block writes it into the message
StageName ==
    [s \in {"parsing-request-json", "final-data-assembly", "database-save"} |->
        CASE s = "parsing-request-json" -> <<"p", "a", "r", "s", "i", "n", "g", "-", "r", "e",
                "q", "u", "e", "s", "t", "-", "j", "s", "o", "n">>
          [] s = "final-data-assembly" -> <<"f", "i", "n", "a", "l", "-", "d", "a", "t", "a", "-",
                  "a", "s", "s", "e", "m", "b", "l", "y">>
          [] s = "database-save" -> <<"d", "a", "t", "a", "b", "a", "s", "e", "-", "s", "a", "v",
                  "e">>]

\* the variables of the first handler that this one has no use for
customUnused == <<asmVars, clientVars, discoverVars, siteConfigurations, newHtmlContent,
                  axiosFetchError, useEffectiveHeadless, ai_task_description, axiosCalls>>

InitCustom ==
    /\ AsmIdle
    /\ RouteIdle
    /\ DiscoverIdle
    /\ ClientIdle
    /\ siteConfigurations \in {NoProfiles, ShopProfile}

\* lines 317-332: the body is not JSON, lacks the url or the scrapeId, or carries both
CustomParseRequest ==
    /\ operationStage = "init"
    /\ awaiting = "none"
    /\ \E body \in {"invalid", "json"} :
       \E url \in RequestUrls, scrapeId \in ScrapeIds :
          IF body = "invalid"
          THEN /\ url = Undef /\ scrapeId = Undef
               /\ operationStage' = "parsing-request-json"
               /\ awaiting' = "catch"
               /\ thrown' = JsonSyntaxError
               /\ UNCHANGED <<request, response>>
          ELSE IF ~Truthy(url)
          THEN /\ operationStage' = "finally"
               /\ response' = [kind |-> "json", status |-> 400,
                               body |-> CustomClientError(<<"u", "n", "k", "n", "o", "w", "n",
                                       "_", "u", "r", "l", "_", "f", "r", "o", "m", "_", "r", "e",
                                               "q", "u", "e", "s", "t">>,
                                                          <<"U", "R", "L", " ", "g", "e", "r",
                                                                  "e", "k", "l", "i">>)]
               /\ UNCHANGED <<awaiting, request, thrown>>
          ELSE IF ~Truthy(scrapeId)
          THEN /\ operationStage' = "finally"
               /\ response' = [kind |-> "json", status |-> 400,
                               body |-> CustomClientError(url, <<"s", "c", "r", "a", "p", "e",
                                       "I", "d", " ", "g", "e", "r", "e", "k", "l", "i">>)]
               /\ UNCHANGED <<awaiting, request, thrown>>
          ELSE /\ operationStage' = "playwright-launch-navigate"
               /\ request' = [url |-> url, scrapeId |-> scrapeId]
               /\ UNCHANGED <<awaiting, response, thrown>>
    /\ fetchMethod' = PW.pending
    /\ UNCHANGED <<customUnused, siteSelectors, pwResponse, htmlContent, baseData,
                   headlessErrorDetail, playwrightBrowser, finalData, perform_AI_analysis,
                   aiResult, browserLaunches, aiCalls>>

\* lines 380-384: the catch block of the fetch stage, and line 388
CustomFetchCaught(message) ==
    /\ headlessErrorDetail' = message
    /\ fetchMethod' = PW.failed_exception
    /\ operationStage' = "cheerio-base-extraction"
    /\ awaiting' = "none"

\* lines 333-357: the launch is asked for, unless the context has no launch function
PlaywrightSetup ==
    /\ operationStage = "playwright-launch-navigate"
    /\ awaiting = "none"
    /\ \E hasLaunch \in BOOLEAN :
          IF hasLaunch
          THEN /\ awaiting' = "launch"
               /\ browserLaunches' = browserLaunches + 1
               /\ UNCHANGED <<operationStage, headlessErrorDetail, fetchMethod>>
          ELSE /\ CustomFetchCaught(LaunchMethodMissing)
               /\ UNCHANGED browserLaunches
    /\ UNCHANGED <<customUnused, siteSelectors, pwResponse, request, htmlContent, baseData,
                   playwrightBrowser, finalData, perform_AI_analysis, aiResult, thrown,
                   response, aiCalls>>

\* line 357: the launch settles
PlaywrightLaunch ==
    /\ operationStage = "playwright-launch-navigate"
    /\ awaiting = "launch"
    /\ \/ /\ playwrightBrowser' = "open"
          /\ awaiting' = "newContext"
          /\ UNCHANGED <<operationStage, headlessErrorDetail, fetchMethod>>
       \/ /\ CustomFetchCaught(LaunchRejected)
          /\ UNCHANGED playwrightBrowser
    /\ UNCHANGED <<customUnused, siteSelectors, pwResponse, request, htmlContent, baseData,
                   finalData, perform_AI_analysis, aiResult, thrown, response,
                   browserLaunches, aiCalls>>

\* an await of lines 359-365 that settles and leaves the handler at the next one
PlaywrightAwait(from, to) ==
    /\ operationStage = "playwright-launch-navigate"
    /\ awaiting = from
    /\ awaiting' = to
    /\ UNCHANGED <<customUnused, siteSelectors, operationStage, pwResponse, request,
                   htmlContent, fetchMethod, baseData, headlessErrorDetail,
                   playwrightBrowser, finalData, perform_AI_analysis, aiResult, thrown,
                   response, browserLaunches, aiCalls>>
\* lines 359-364
PlaywrightNewContext == PlaywrightAwait("newContext", "newPage")
\* line 365
PlaywrightNewPage == PlaywrightAwait("newPage", "goto")

\* lines 368-377: the navigation settles
PlaywrightGoto ==
    /\ operationStage = "playwright-launch-navigate"
    /\ awaiting = "goto"
    /\ \/ /\ CustomFetchCaught(NavigationTimeout)
          /\ UNCHANGED pwResponse
       \/ \E r \in GotoResponses :
             /\ pwResponse' = r
             /\ IF ResponseOk(r)
                THEN /\ awaiting' = "content"
                     /\ UNCHANGED <<operationStage, headlessErrorDetail, fetchMethod>>
                ELSE /\ headlessErrorDetail' = NavigationFailed(r)
                     /\ fetchMethod' = PW.failed_navigation
                     /\ operationStage' = "cheerio-base-extraction"
                     /\ awaiting' = "none"
    /\ UNCHANGED <<customUnused, siteSelectors, request, htmlContent, baseData,
                   playwrightBrowser, finalData, perform_AI_analysis, aiResult, thrown,
                   response, browserLaunches, aiCalls>>

\* lines 371-372 and 388
PlaywrightContent ==
    /\ operationStage = "playwright-launch-navigate"
    /\ awaiting = "content"
    /\ \E page \in CustomPages(request.url) :
          htmlContent' = [k |-> "html", doc |-> page]
    /\ fetchMethod' = PW.success
    /\ operationStage' = "cheerio-base-extraction"
    /\ awaiting' = "none"
    /\ UNCHANGED <<customUnused, siteSelectors, pwResponse, request, baseData,
                   headlessErrorDetail, playwrightBrowser, finalData, perform_AI_analysis,
                   aiResult, thrown, response, browserLaunches, aiCalls>>

\* lines 389-399 and 417-424: the initial record; the assembler is called on HTML that
\* came without an error, and the record is completed on the spot otherwise
CheerioBaseExtraction ==
    /\ operationStage = "cheerio-base-extraction"
    /\ awaiting = "none"
    /\ IF HasHtml(htmlContent) /\ ~Truthy(headlessErrorDetail)
       THEN /\ baseData' = CustomInitialData(request.url, headlessErrorDetail)
            /\ awaiting' = "getStoredSiteSelectors"
       ELSE /\ baseData' = CustomWithoutHtml(CustomInitialData(request.url,
                                                               headlessErrorDetail),
                                             headlessErrorDetail, HasHtml(htmlContent))
            /\ awaiting' = "canRunCustomAI"
    /\ UNCHANGED <<customUnused, siteSelectors, operationStage, pwResponse, request,
                   htmlContent, fetchMethod, headlessErrorDetail, playwrightBrowser,
                   finalData, perform_AI_analysis, aiResult, thrown, response,
                   browserLaunches, aiCalls>>

\* lines 399-416: the assembler returns its record, or throws
CheerioExtracted ==
    /\ operationStage = "cheerio-base-extraction"
    /\ awaiting = "extractBaseDataFromHtml"
    /\ awaiting' = "canRunCustomAI"
    /\ baseData' = IF ExtractThrows(htmlContent.doc, request.url)
                   THEN CustomCheerioFailed(baseData,
                                            ExtractError(htmlContent.doc, request.url))
                   ELSE CustomWithCheerioData(baseData,
                                              BaseDataWith(htmlContent.doc, request.url,
                                                           siteSelectors),
                                              request.url)
    /\ headlessErrorDetail' = IF ~ExtractThrows(htmlContent.doc, request.url)
                                 /\ Truthy(baseData'.error)
                              THEN baseData'.error ELSE headlessErrorDetail
    /\ UNCHANGED <<customUnused, siteSelectors, operationStage, pwResponse, request,
                   htmlContent, fetchMethod, playwrightBrowser, finalData,
                   perform_AI_analysis, aiResult, thrown, response, browserLaunches,
                   aiCalls>>

\* lines 430-496: the model is asked when there is enough to ask about
CustomAiDecision ==
    /\ operationStage = "cheerio-base-extraction"
    /\ awaiting = "canRunCustomAI"
    /\ perform_AI_analysis' = canRunCustomAI(htmlContent, baseData)
    /\ IF perform_AI_analysis'
       THEN /\ operationStage' = "custom-ai-extraction-call"
            /\ awaiting' = "callCustomGeminiAI"
            /\ aiCalls' = aiCalls + 1
       ELSE /\ awaiting' = "pwPage.close"
            /\ UNCHANGED <<operationStage, aiCalls>>
    /\ UNCHANGED <<customUnused, siteSelectors, pwResponse, request, htmlContent,
                   fetchMethod, baseData, headlessErrorDetail, playwrightBrowser, finalData,
                   aiResult, thrown, response, browserLaunches>>

\* line 496: the call settles
CustomAiCall ==
    /\ operationStage = "custom-ai-extraction-call"
    /\ awaiting = "callCustomGeminiAI"
    /\ aiResult' = callCustomGeminiAI
    /\ awaiting' = "pwPage.close"
    /\ UNCHANGED <<customUnused, siteSelectors, operationStage, pwResponse, request,
                   htmlContent, fetchMethod, baseData, headlessErrorDetail,
                   playwrightBrowser, finalData, perform_AI_analysis, thrown, response,
                   browserLaunches, aiCalls>>

\* line 507: the page, when there is one, is closed
CustomPageClose ==
    /\ operationStage \in {"cheerio-base-extraction", "custom-ai-extraction-call"}
    /\ awaiting = "pwPage.close"
    /\ awaiting' = "browser.close"
    /\ UNCHANGED <<customUnused, siteSelectors, operationStage, pwResponse, request,
                   htmlContent, fetchMethod, baseData, headlessErrorDetail,
                   playwrightBrowser, finalData, perform_AI_analysis, aiResult, thrown,
                   response, browserLaunches, aiCalls>>

\* lines 508-516: the browser, when there is one, is closed
CustomBrowserClose ==
    /\ operationStage \in {"cheerio-base-extraction", "custom-ai-extraction-call"}
    /\ awaiting = "browser.close"
    /\ playwrightBrowser' = AfterClose(playwrightBrowser)
    /\ operationStage' = "final-data-assembly"
    /\ awaiting' = "none"
    /\ UNCHANGED <<customUnused, siteSelectors, pwResponse, request, htmlContent,
                   fetchMethod, baseData, headlessErrorDetail, finalData,
                   perform_AI_analysis, aiResult, thrown, response, browserLaunches,
                   aiCalls>>

\* lines 516-673: the record is put together, unless one of the two imports is called
CustomFinalAssembly ==
    /\ operationStage = "final-data-assembly"
    /\ awaiting = "none"
    /\ \E error \in CustomAssemblyErrors(perform_AI_analysis, aiResult, baseData,
                                         fetchMethod, htmlContent) :
          IF error = Null
          THEN /\ finalData' = CustomFinalData(CustomAssembled(perform_AI_analysis, aiResult,
                                                               baseData, fetchMethod,
                                                               htmlContent))
               /\ operationStage' = "database-save"
               /\ UNCHANGED <<awaiting, thrown>>
          ELSE /\ thrown' = error
               /\ awaiting' = "catch"
               /\ UNCHANGED <<operationStage, finalData>>
    /\ UNCHANGED <<customUnused, siteSelectors, pwResponse, request, htmlContent,
                   fetchMethod, baseData, headlessErrorDetail, playwrightBrowser,
                   perform_AI_analysis, aiResult, response, browserLaunches, aiCalls>>

\* line 674: mapAndSaveScrapedData rejects
DatabaseSave ==
    /\ operationStage = "database-save"
    /\ awaiting = "none"
    /\ thrown' = PrismaTypeUnbound
    /\ awaiting' = "catch"
    /\ UNCHANGED <<customUnused, siteSelectors, operationStage, pwResponse, request,
                   htmlContent, fetchMethod, baseData, headlessErrorDetail,
                   playwrightBrowser, finalData, perform_AI_analysis, aiResult, response,
                   browserLaunches, aiCalls>>

\* lines 679-695: the error record is built, and saved when the request named a url
\* and a scrapeId
CustomGlobalCatch ==
    /\ awaiting = "catch"
    /\ IF operationStage = "parsing-request-json"
       THEN /\ response' = [kind |-> "json", status |-> 500,
                            body |-> CustomErrorResponse(<<"u", "n", "k", "n", "o", "w", "n", "_",
                                    "u", "r", "l">>,
                                                         StageName[operationStage], thrown,
                                                         fetchMethod)]
            /\ operationStage' = "finally"
            /\ awaiting' = "none"
       ELSE /\ response' = [kind |-> "json", status |-> 500,
                            body |-> CustomErrorResponse(request.url,
                                                         StageName[operationStage], thrown,
                                                         fetchMethod)]
            /\ operationStage' = "database-save-error-state"
            /\ awaiting' = "mapAndSaveScrapedData"
    /\ UNCHANGED <<customUnused, siteSelectors, pwResponse, request, htmlContent,
                   fetchMethod, baseData, headlessErrorDetail, playwrightBrowser, finalData,
                   perform_AI_analysis, aiResult, thrown, browserLaunches, aiCalls>>

\* lines 696-702: the second save rejects as the first did; the rejection is logged and
\* the error record is sent
DatabaseSaveErrorState ==
    /\ operationStage = "database-save-error-state"
    /\ awaiting = "mapAndSaveScrapedData"
    /\ operationStage' = "finally"
    /\ awaiting' = "none"
    /\ UNCHANGED <<customUnused, siteSelectors, pwResponse, request, htmlContent,
                   fetchMethod, baseData, headlessErrorDetail, playwrightBrowser, finalData,
                   perform_AI_analysis, aiResult, thrown, response, browserLaunches,
                   aiCalls>>

\* lines 703-713
CustomFinally ==
    /\ Stage("finally", "returned")
    /\ playwrightBrowser' = AfterClose(playwrightBrowser)
    /\ UNCHANGED <<customUnused, siteSelectors, awaiting, pwResponse, request, htmlContent,
                   fetchMethod, baseData, headlessErrorDetail, finalData,
                   perform_AI_analysis, aiResult, thrown, response, browserLaunches,
                   aiCalls>>

NextCustom ==
    \/ CustomParseRequest \/ PlaywrightSetup \/ PlaywrightLaunch \/ PlaywrightNewContext
    \/ PlaywrightNewPage \/ PlaywrightGoto \/ PlaywrightContent \/ CheerioBaseExtraction
    \/ StoredSelectorsRead \/ CheerioExtracted \/ CustomAiDecision \/ CustomAiCall
    \/ CustomPageClose \/ CustomBrowserClose \/ CustomFinalAssembly \/ DatabaseSave
    \/ CustomGlobalCatch \/ DatabaseSaveErrorState \/ CustomFinally

SpecCustom == InitCustom /\ [][NextCustom]_vars

\* ------------------------------------------------------------------ fetchAndParseSitemap

\* the recursion limit of fetchAndParseSitemap
MaxSitemapDepth == 10

\* what a URL of a site answers with: the root element of the document and the locations
\* (loc[0] of a sitemap or url element, link[0] of an RSS item) of its entries; an entry
\* without a location is the empty text
SitemapIndex(locs) == [kind |-> "sitemapindex", locs |-> locs]
UrlSet(locs) == [kind |-> "urlset", locs |-> locs]
RssFeed(links) == [kind |-> "rss", locs |-> links]
\* an Atom feed lists entries: the link elements of each as the parser hands them over
\* (no list where the entry has none) and the text of its id
AtomFeed(entries) == [kind |-> "feed", locs |-> entries]
AtomEntry(link, id) == [link |-> link, id |-> id]
\* a link element: its rel and href, each a string, an array or absent
AtomLink(rel, href) == [rel |-> rel, href |-> href]
StringValue(t) == [k |-> "text", v |-> t]

\* line 629: l.rel === 'alternate' || !l.rel
LinkCounts(l) ==
    \/ l.rel.k = "undefined"
    \/ l.rel.k = "text" /\ l.rel.v \in { <<"a", "l", "t", "e", "r", "n", "a", "t", "e">>, <<>> }
\* lines 628-630: the href of the first link that counts, when it is a string that is
\* not empty
FirstCounting(links) ==
    links[CHOOSE i \in 1..Len(links) :
             LinkCounts(links[i]) /\ \A j \in 1..(i - 1) : ~LinkCounts(links[j])]
HrefAttr(links) ==
    IF \E i \in 1..Len(links) : LinkCounts(links[i])
    THEN IF FirstCounting(links).href.k = "text" THEN FirstCounting(links).href.v ELSE <<>>
    ELSE <<>>
\* lines 627-644: the location an Atom entry gives, the empty text when it gives none;
\* the id is looked at only when the entry has no list of links
AtomLocation(entry) ==
    IF entry.link.k = "list" THEN HrefAttr(entry.link.v)
    ELSE IF ~IsNil(entry.id) /\ StartsWith(entry.id, <<"h", "t", "t", "p">>) THEN entry.id
    ELSE <<>>
\* a document of another root element, and one that xml2js or gunzip rejects
OtherXml == [kind |-> "other", locs |-> <<>>]
Unparsable == [kind |-> "unparsable", locs |-> <<>>]
\* robots.txt, line by line
RobotsTxt(lines) == [kind |-> "robots", locs |-> lines]
\* a request that was rejected
NoAnswer == [kind |-> "error", locs |-> <<>>, entries |-> <<>>]

\* a document as the call reads it: each location next to the URL it stands for,
\* new NodeURL(location, URL of the document), Null where that throws
EntryOf(loc, base) == [loc |-> loc, url |-> IF loc = <<>> THEN Null ELSE UrlJoin(loc, base)]
WithEntries(doc, url) ==
    [kind |-> doc.kind, locs |-> doc.locs,
     entries |-> IF doc.kind = "robots" THEN <<>>
                 ELSE IF doc.kind = "feed"
                 THEN [i \in 1..Len(doc.locs) |-> EntryOf(AtomLocation(doc.locs[i]), url)]
                 ELSE [i \in 1..Len(doc.locs) |-> EntryOf(doc.locs[i], url)]]
Served(site) == [url \in DOMAIN site |-> WithEntries(site[url], url)]

\* a HEAD request succeeds for the URLs the site serves
HeadOk(site, url) == url \in DOMAIN site
\* the answer to a GET request
Answer(site, url, answered) == IF answered /\ url \in DOMAIN site THEN site[url] ELSE NoAnswer

commonPaths ==
    << <<"/", "s", "i", "t", "e", "m", "a", "p", ".", "x", "m", "l">>, <<"/", "s", "i", "t", "e",
            "m", "a", "p", "_", "i", "n", "d", "e", "x", ".", "x", "m", "l">>, <<"/", "s", "i",
                    "t", "e", "m", "a", "p", ".", "x", "m", "l", ".", "g", "z">>, <<"/", "s", "i",
                            "t", "e", "m", "a", "p", "_", "i", "n", "d", "e", "x", ".", "x", "m",
                                    "l", ".", "g", "z">>,
       <<"/", "s", "i", "t", "e", "m", "a", "p">>, <<"/", "s", "i", "t", "e", "m", "a", "p",
               "/">>, <<"/", "s", "i", "t", "e", "m", "a", "p", "s", ".", "x", "m", "l">>, <<"/",
                       "s", "i", "t", "e", "m", "a", "p", "-", "i", "n", "d", "e", "x", ".", "x",
                               "m", "l">>,
       <<"/", "p", "o", "s", "t", "-", "s", "i", "t", "e", "m", "a", "p", ".", "x", "m",
               "l">>, <<"/", "p", "a", "g", "e", "-", "s", "i", "t", "e", "m", "a", "p", ".", "x",
                       "m", "l">>, <<"/", "p", "r", "o", "d", "u", "c", "t", "-", "s", "i", "t",
                               "e", "m", "a", "p", ".", "x", "m", "l">>,
       <<"/", "c", "a", "t", "e", "g", "o", "r", "y", "-", "s", "i", "t", "e", "m", "a", "p", ".",
               "x", "m", "l">>, <<"/", "n", "e", "w", "s", "-", "s", "i", "t", "e", "m", "a", "p",
                       ".", "x", "m", "l">>, <<"/", "r", "o", "b", "o", "t", "s", ".", "t", "x",
                               "t">> >>
IsSitemapLine(line) == StartsWith(ToLower(line), <<"s", "i", "t", "e", "m", "a", "p", ":">>)
\* the value of the first Sitemap: line of robots.txt, the empty text without one
SitemapOfLines(lines) ==
    IF \E i \in 1..Len(lines) : IsSitemapLine(lines[i])
    THEN Trim(Drop(lines[CHOOSE i \in 1..Len(lines) :
                            /\ IsSitemapLine(lines[i])
                            /\ \A j \in 1..(i - 1) : ~IsSitemapLine(lines[j])],
                   Len(<<"s", "i", "t", "e", "m", "a", "p", ":">>)))
    ELSE <<>>
SitemapFromRobots(site, robotsUrl) ==
    IF HeadOk(site, robotsUrl) /\ site[robotsUrl].kind = "robots"
    THEN SitemapOfLines(site[robotsUrl].locs)
    ELSE <<>>
\* the URL one common path yields, Null when it yields none
CommonPathSitemap(site, path, tried) ==
    IF path = <<"/", "r", "o", "b", "o", "t", "s", ".", "t", "x", "t">>
    THEN IF SitemapFromRobots(site, tried) # <<>> /\ HeadOk(site, SitemapFromRobots(site, tried))
         THEN SitemapFromRobots(site, tried) ELSE Null
    ELSE IF HeadOk(site, tried) THEN tried ELSE Null
RECURSIVE FirstCommonPath(_, _, _)
FirstCommonPath(site, origin, paths) ==
    IF paths = <<>> THEN Null
    ELSE IF CommonPathSitemap(site, Head(paths), origin \o Head(paths)) # Null
    THEN CommonPathSitemap(site, Head(paths), origin \o Head(paths))
    ELSE FirstCommonPath(site, origin, Tail(paths))
LooksLikeSitemapPath(pathname) ==
    \/ EndsWith(ToLower(pathname), <<".", "x", "m", "l">>) \/ EndsWith(ToLower(pathname), <<".",
            "x", "m", "l", ".", "g", "z">>)
    \/ Includes(pathname, <<"s", "i", "t", "e", "m", "a", "p">>)
AlternativeOf(site, url, parsedUrl) ==
    IF ~parsedUrl.ok THEN Null
    ELSE IF LooksLikeSitemapPath(parsedUrl.pathname) /\ HeadOk(site, url) THEN url
    ELSE FirstCommonPath(site, parsedUrl.protocol \o <<"/",
            "/">> \o parsedUrl.hostname, commonPaths)
\* one call of fetchAndParseSitemap that has not returned: where it is (at its start, at
\* one of its awaits, or in the loop over the entries of an index), the document it was
\* answered with and the entries it has not handled yet
SitemapCall(url, depth) ==
    [url |-> url, depth |-> depth, pc |-> "enter", doc |-> NoAnswer, pending |-> <<>>]
Awaiting(call, url, pc) == [call EXCEPT !.url = url, !.pc = pc]
InIndex(call, entries) == [call EXCEPT !.pc = "index", !.pending = entries]
TopCall == sitemapCalls[Len(sitemapCalls)]
CallsBelow == SubSeq(sitemapCalls, 1, Len(sitemapCalls) - 1)

TooDeep(depth) == depth > MaxSitemapDepth
\* a call that never finds its URL among the visited ones
AlwaysNew(url, visited) == FALSE
AlreadyVisited(url, visited) == url \in visited

\* Set.add on the collection of page URLs, kept in the order of insertion
AddUrl(found, url) ==
    IF \E i \in 1..Len(found) : found[i] = url THEN found ELSE Append(found, url)
RECURSIVE AddLocations(_, _)
AddLocations(found, entries) ==
    IF entries = <<>> THEN found
    ELSE IF Head(entries).loc = <<>> \/ Head(entries).url = Null
    THEN AddLocations(found, Tail(entries))
    ELSE AddLocations(AddUrl(found, Head(entries).url), Tail(entries))
ListsPages(doc) == doc.kind \in {"urlset", "rss", "feed"}
FoundAfter(found, doc) ==
    IF ListsPages(doc) THEN AddLocations(found, doc.entries) ELSE found

\* ---- the sites and the inputs of the calls

DecimalDigits == << "0", "1", "2", "3", "4", "5", "6", "7", "8", "9" >>
NumText(n) ==
    IF n < 10 THEN << DecimalDigits[n + 1] >>
    ELSE << DecimalDigits[(n \div 10) + 1], DecimalDigits[(n % 10) + 1] >>

SitemapRoot == <<"h", "t", "t", "p", "s", ":", "/", "/", "s", "h", "o", "p", ".", "t", "e", "s",
        "t", "/", "s", "i", "t", "e", "m", "a", "p", ".", "x", "m", "l">>
\* two indexes that list each other and the root
CyclicSite ==
    (SitemapRoot :> SitemapIndex(<< <<"h", "t", "t", "p", "s", ":", "/", "/", "s", "h", "o", "p",
            ".", "t", "e", "s", "t", "/", "a", ".", "x", "m", "l">>, <<"/", "b", ".", "x", "m",
                    "l">> >>))
    @@ (<<"h", "t", "t", "p", "s", ":", "/", "/", "s", "h", "o", "p", ".", "t", "e", "s", "t",
            "/", "a", ".", "x", "m", "l">>
          :> SitemapIndex(<< <<"h", "t", "t", "p", "s", ":", "/", "/", "s", "h", "o", "p", ".",
                  "t", "e", "s", "t", "/", "b", ".", "x", "m", "l">>, SitemapRoot, <<"p", "a",
                          "g", "e", "s", "-", "a", ".", "x", "m", "l">> >>))
    @@ (<<"h", "t", "t", "p", "s", ":", "/", "/", "s", "h", "o", "p", ".", "t", "e", "s", "t",
            "/", "b", ".", "x", "m", "l">>
          :> SitemapIndex(<< <<"h", "t", "t", "p", "s", ":", "/", "/", "s", "h", "o", "p", ".",
                  "t", "e", "s", "t", "/", "a", ".", "x", "m", "l">>, <<"p", "a", "g", "e", "s",
                          "-", "b", ".", "x", "m", "l">> >>))
    @@ (<<"h", "t", "t", "p", "s", ":", "/", "/", "s", "h", "o", "p", ".", "t", "e", "s", "t",
            "/", "p", "a", "g", "e", "s", "-", "a", ".", "x", "m", "l">>
          :> UrlSet(<< <<"h", "t", "t", "p", "s", ":", "/", "/", "s", "h", "o", "p", ".", "t",
                  "e", "s", "t", "/", "p", "/", "1">>, <<"h", "t", "t", "p", "s", ":", "/", "/",
                          "s", "h", "o", "p", ".", "t", "e", "s", "t", "/", "p", "/", "2">> >>))
    @@ (<<"h", "t", "t", "p", "s", ":", "/", "/", "s", "h", "o", "p", ".", "t", "e", "s", "t",
            "/", "p", "a", "g", "e", "s", "-", "b", ".", "x", "m", "l">>
          :> UrlSet(<< <<"/", "p", "/", "2">>, <<"h", "t", "t", "p", "s", ":", "/", "/", "s", "h",
                  "o", "p", ".", "t", "e", "s", "t", "/", "p", "/", "3">>, <<"h", "t", "t", "p",
                          "s", ":", "/", "/", "b", "a", "d", " ", "h", "o", "s", "t", "/",
                                  "p">> >>))
\* an index that lists itself, and one sitemap twice
SelfSite ==
    (SitemapRoot :> SitemapIndex(<< SitemapRoot, <<"p", "a", "g", "e", "s", ".", "x", "m",
            "l">>, <<"p", "a", "g", "e", "s", ".", "x", "m", "l">> >>))
    @@ (<<"h", "t", "t", "p", "s", ":", "/", "/", "s", "h", "o", "p", ".", "t", "e", "s", "t",
            "/", "p", "a", "g", "e", "s", ".", "x", "m", "l">> :> UrlSet(<< <<"h", "t", "t", "p",
                    "s", ":", "/", "/", "s", "h", "o", "p", ".", "t", "e", "s", "t", "/", "p",
                            "/", "1">>, <<>> >>))
\* sitemaps that cannot be read, an entry without a location and a location that is no
\* URL in front of another sitemap
BrokenSite ==
    (SitemapRoot
       :> SitemapIndex(<< <<"b", "r", "o", "k", "e", "n", ".", "x", "m", "l", ".", "g",
               "z">>, <<"g", "o", "n", "e", ".", "x", "m", "l">>, <<>>, <<"n", "e", "w", "s", ".",
                       "x", "m", "l">>, <<"a", "t", "o", "m", ".", "x", "m", "l">>,
                          <<"o", "t", "h", "e", "r", ".", "x", "m", "l">>, <<"p", "a", "g", "e",
                                  "s", ".", "x", "m", "l">>, <<"h", "t", "t", "p", "s", ":", "/",
                                          "/", "b", "a", "d", " ", "h", "o", "s", "t", "/", "s",
                                                  ".", "x", "m", "l">>,
                          <<"a", "f", "t", "e", "r", ".", "x", "m", "l">> >>))
    @@ (<<"h", "t", "t", "p", "s", ":", "/", "/", "s", "h", "o", "p", ".", "t", "e", "s", "t",
            "/", "b", "r", "o", "k", "e", "n", ".", "x", "m", "l", ".", "g", "z">> :> Unparsable)
    @@ (<<"h", "t", "t", "p", "s", ":", "/", "/", "s", "h", "o", "p", ".", "t", "e", "s", "t",
            "/", "n", "e", "w", "s", ".", "x", "m", "l">> :> RssFeed(<< <<"h", "t", "t", "p", "s",
                    ":", "/", "/", "s", "h", "o", "p", ".", "t", "e", "s", "t", "/", "n", "/",
                            "1">> >>))
    @@ (<<"h", "t", "t", "p", "s", ":", "/", "/", "s", "h", "o", "p", ".", "t", "e", "s", "t",
            "/", "a", "t", "o", "m", ".", "x", "m", "l">>
          :> AtomFeed(<< AtomEntry(L(<< AtomLink(StringValue(<<"a", "l", "t", "e", "r", "n", "a",
                  "t", "e">>),
                                                 StringValue(<<"h", "t", "t", "p", "s", ":", "/",
                                                         "/", "s", "h", "o", "p", ".", "t", "e",
                                                                 "s", "t", "/", "n", "/",
                                                                         "2">>)) >>),
                                   <<"u", "r", "n", ":", "n", ":", "2">>),
                         AtomEntry(L(<< AtomLink(StringValue(<<"s", "e", "l",
                                 "f">>), StringValue(<<"/", "f", "e", "e", "d", "/", "n", "/",
                                         "3">>)),
                                        AtomLink(LUndef, StringValue(<<"/", "n", "/", "3">>)),
                                        AtomLink(StringValue(<<"a", "l", "t", "e", "r", "n", "a",
                                                "t", "e">>), StringValue(<<"/", "n", "/", "3",
                                                        "b">>)) >>),
                                   Undef),
                         AtomEntry(L(<< AtomLink(L(<< <<"a", "l", "t", "e", "r", "n", "a", "t",
                                 "e">> >>),
                                                 L(<< <<"h", "t", "t", "p", "s", ":", "/", "/",
                                                         "s", "h", "o", "p", ".", "t", "e", "s",
                                                                 "t", "/", "n", "/", "4">> >>)) >>),
                                   <<"h", "t", "t", "p", "s", ":", "/", "/", "s", "h", "o", "p",
                                           ".", "t", "e", "s", "t", "/", "n", "/", "4">>),
                         AtomEntry(L(<< AtomLink(StringValue(<<"a", "l", "t", "e", "r", "n", "a",
                                 "t", "e">>), LUndef),
                                        AtomLink(LUndef, StringValue(<<"/", "n", "/", "5">>)) >>),
                                   <<"h", "t", "t", "p", "s", ":", "/", "/", "s", "h", "o", "p",
                                           ".", "t", "e", "s", "t", "/", "n", "/", "5">>),
                         AtomEntry(L(<< AtomLink(StringValue(<<"s", "e", "l",
                                 "f">>), StringValue(<<"/", "f", "e", "e", "d", "/", "n", "/",
                                         "6">>)) >>),
                                   <<"h", "t", "t", "p", "s", ":", "/", "/", "s", "h", "o", "p",
                                           ".", "t", "e", "s", "t", "/", "n", "/", "6">>),
                         AtomEntry(LUndef, <<"h", "t", "t", "p", "s", ":", "/", "/", "s", "h",
                                 "o", "p", ".", "t", "e", "s", "t", "/", "n", "/", "7">>),
                         AtomEntry(LUndef, <<"u", "r", "n", ":", "n", ":", "8">>),
                         AtomEntry(LUndef, Undef) >>))
    @@ (<<"h", "t", "t", "p", "s", ":", "/", "/", "s", "h", "o", "p", ".", "t", "e", "s", "t",
            "/", "o", "t", "h", "e", "r", ".", "x", "m", "l">> :> OtherXml)
    @@ (<<"h", "t", "t", "p", "s", ":", "/", "/", "s", "h", "o", "p", ".", "t", "e", "s", "t",
            "/", "p", "a", "g", "e", "s", ".", "x", "m", "l">> :> UrlSet(<< <<"h", "t", "t", "p",
                    "s", ":", "/", "/", "s", "h", "o", "p", ".", "t", "e", "s", "t", "/", "p",
                            "/", "1">> >>))
    @@ (<<"h", "t", "t", "p", "s", ":", "/", "/", "s", "h", "o", "p", ".", "t", "e", "s", "t",
            "/", "a", "f", "t", "e", "r", ".", "x", "m", "l">> :> UrlSet(<< <<"h", "t", "t", "p",
                    "s", ":", "/", "/", "s", "h", "o", "p", ".", "t", "e", "s", "t", "/", "p",
                            "/", "9">> >>))
\* a chain of indexes, each listing the next index and a sitemap of one page
ChainLength == 12
ChainUrl(i) == <<"h", "t", "t", "p", "s", ":", "/", "/", "s", "h", "o", "p", ".", "t", "e", "s",
        "t", "/", "s", "i", "t", "e", "m", "a", "p", "-">> \o NumText(i) \o <<".", "x", "m", "l">>
ChainPagesUrl(i) == <<"h", "t", "t", "p", "s", ":", "/", "/", "s", "h", "o", "p", ".", "t", "e",
        "s", "t", "/", "p", "a", "g", "e", "s", "-">> \o NumText(i) \o <<".", "x", "m", "l">>
ChainPage(i) == <<"h", "t", "t", "p", "s", ":", "/", "/", "s", "h", "o", "p", ".", "t", "e", "s",
        "t", "/", "p", "/">> \o NumText(i)
ChainLevel(url) == CHOOSE i \in 0..ChainLength : url \in { ChainUrl(i), ChainPagesUrl(i) }
ChainSite ==
    [url \in { ChainUrl(i) : i \in 0..ChainLength } \cup { ChainPagesUrl(i) : i \in 0..ChainLength }
       |-> IF url = ChainUrl(ChainLevel(url))
           THEN SitemapIndex(<< ChainUrl(ChainLevel(url) + 1),
                                <<"p", "a", "g", "e", "s",
                                        "-">> \o NumText(ChainLevel(url)) \o <<".", "x", "m",
                                                "l">> >>)
           ELSE UrlSet(<< ChainPage(ChainLevel(url)) >>)]
\* a site whose sitemap is named in robots.txt only, and one without any
RobotsSite ==
    (<<"h", "t", "t", "p", "s", ":", "/", "/", "s", "h", "o", "p", ".", "t", "e", "s", "t", "/",
            "r", "o", "b", "o", "t", "s", ".", "t", "x", "t">>
       :> RobotsTxt(<< <<"U", "s", "e", "r", "-", "a", "g", "e", "n", "t", ":", " ", "*">>, <<"S",
               "i", "t", "e", "m", "a", "p", ":", " ", "h", "t", "t", "p", "s", ":", "/", "/",
                       "s", "h", "o", "p", ".", "t", "e", "s", "t", "/", "m", "a", "p", "/", "a",
                               "l", "l", ".", "x", "m", "l">> >>))
    @@ (<<"h", "t", "t", "p", "s", ":", "/", "/", "s", "h", "o", "p", ".", "t", "e", "s", "t",
            "/", "m", "a", "p", "/", "a", "l", "l", ".", "x", "m", "l">> :> UrlSet(<< <<"h", "t",
                    "t", "p", "s", ":", "/", "/", "s", "h", "o", "p", ".", "t", "e", "s", "t",
                            "/", "p", "/", "1">> >>))
BareSite == (<<"h", "t", "t", "p", "s", ":", "/", "/", "s", "h", "o", "p", ".", "t", "e", "s",
        "t", "/", "r", "o", "b", "o", "t", "s", ".", "t", "x", "t">> :> RobotsTxt(<< <<"U", "s",
                "e", "r", "-", "a", "g", "e", "n", "t", ":", " ", "*">> >>))
Sites == { CyclicSite, SelfSite, BrokenSite, ChainSite, RobotsSite, BareSite }

SitemapInputs ==
    { SitemapRoot, ChainUrl(0), <<"h", "t", "t", "p", "s", ":", "/", "/", "s", "h", "o", "p", ".",
            "t", "e", "s", "t", "/">>, <<"h", "t", "t", "p", "s", ":", "/", "/", "s", "h", "o",
                    "p", ".", "t", "e", "s", "t", "/", "s", "h", "o", "p", "?", "p", "a", "g",
                            "e", "=", "2">>,
      <<"s", "h", "o", "p", ".", "t", "e", "s", "t">> }

\* new NodeURL(url) of the inputs of the calls, parsed once for all of them
ParsedInputs == [url \in SitemapInputs |-> ParseUrl(url)]
ParsedUrl(url) == IF url \in SitemapInputs THEN ParsedInputs[url] ELSE ParseUrl(url)
AlternativesOf(site, url) == { AlternativeOf(site, url, parsedUrl) : parsedUrl \in { ParsedUrl(url) } }
tryAlternativeSitemapUrls(site, baseUrlOrSitemapUrl) ==
    CHOOSE foundSitemap \in AlternativesOf(site, baseUrlOrSitemapUrl) : TRUE

LooksLikeSitemapUrl(input) == Includes(input, <<".", "x", "m", "l">>) \/ Includes(input, <<"s",
        "i", "t", "e", "m", "a", "p">>)
\* ---- the call, one await at a time

InitSitemap ==
    /\ AsmIdle
    /\ RouteIdle
    /\ DiscoverIdle
    /\ RetryIdle
    /\ siteConfigurations = NoProfiles
    /\ sitemapStage = "idle"
    /\ sitemapInput \in SitemapInputs
    /\ sitemapSite \in { Served(site) : site \in Sites }
    /\ sitemapCalls = <<>>
    /\ visitedSitemaps = {}
    /\ allFoundUrls = <<>>
    /\ sitemapFetches = <<>>
    /\ sitemapResult = <<>>

\* the call returns: to the loop of the call that made it, or to the caller of the top one
ReturnFromCall(value) ==
    /\ sitemapCalls' = CallsBelow
    /\ IF Len(sitemapCalls) = 1
       THEN sitemapStage' = "returned" /\ sitemapResult' = value
       ELSE UNCHANGED <<sitemapStage, sitemapResult>>

\* fetchAndParseSitemap(sitemapInput) with the default depth and fresh sets
CallFetchAndParseSitemap ==
    /\ sitemapStage = "idle"
    /\ sitemapStage' = "running"
    /\ sitemapCalls' = << SitemapCall(sitemapInput, 0) >>
    /\ UNCHANGED <<asmVars, siteSelectors, siteConfigurations, routeVars, discoverVars, retryVars,
                   sitemapInput, sitemapSite, visitedSitemaps, allFoundUrls, sitemapFetches,
                   sitemapResult>>

\* lines 564-571: a URL visited before ends the call; a new one is marked visited
\* and requested
VisitOrReturn(call, url) ==
    IF AlreadyVisited(url, visitedSitemaps)
    THEN ReturnFromCall(allFoundUrls) /\ UNCHANGED visitedSitemaps
    ELSE /\ visitedSitemaps' = visitedSitemaps \cup {url}
         /\ sitemapCalls' = Append(CallsBelow, Awaiting(call, url, "get"))
         /\ UNCHANGED <<sitemapStage, sitemapResult>>
\* lines 547-571: a call from its first line to its first await, or to its return
EnterSitemap ==
    /\ sitemapStage = "running"
    /\ TopCall.pc = "enter"
    /\ IF TooDeep(TopCall.depth)
       THEN ReturnFromCall(allFoundUrls) /\ UNCHANGED visitedSitemaps
       ELSE IF TopCall.depth = 0 /\ ~LooksLikeSitemapUrl(TopCall.url)
       THEN /\ sitemapCalls' = Append(CallsBelow, Awaiting(TopCall, TopCall.url, "alternatives"))
            /\ UNCHANGED <<visitedSitemaps, sitemapStage, sitemapResult>>
       ELSE VisitOrReturn(TopCall, TopCall.url)
    /\ UNCHANGED <<asmVars, siteSelectors, siteConfigurations, routeVars, discoverVars, retryVars,
                   sitemapInput, sitemapSite, allFoundUrls, sitemapFetches>>
\* lines 556-571: tryAlternativeSitemapUrls has settled, with a sitemap URL or without
AlternativesSettled ==
    /\ sitemapStage = "running"
    /\ TopCall.pc = "alternatives"
    /\ \E foundSitemap \in { tryAlternativeSitemapUrls(sitemapSite, TopCall.url) } :
          IF foundSitemap = Null
          THEN ReturnFromCall(<<>>) /\ UNCHANGED visitedSitemaps
          ELSE VisitOrReturn(TopCall, foundSitemap)
    /\ UNCHANGED <<asmVars, siteSelectors, siteConfigurations, routeVars, discoverVars, retryVars,
                   sitemapInput, sitemapSite, allFoundUrls, sitemapFetches>>
\* a .gz body that gunzipSync rejects
GunzipThrows(url, doc) == EndsWith(url, <<".", "g", "z">>) /\ doc.kind = "unparsable"
\* lines 574-586: the GET has settled; a rejection and a throw of gunzipSync end the call
\* in its catch block, otherwise the parser is started
SitemapGet ==
    /\ sitemapStage = "running"
    /\ TopCall.pc = "get"
    /\ \E answered \in BOOLEAN :
          \E doc \in { Answer(sitemapSite, TopCall.url, answered) } :
             /\ sitemapFetches' = Append(sitemapFetches,
                                         [url |-> TopCall.url, depth |-> TopCall.depth,
                                          doc |-> doc])
             /\ IF doc.kind = "error" \/ GunzipThrows(TopCall.url, doc)
                THEN ReturnFromCall(allFoundUrls)
                ELSE /\ sitemapCalls' = Append(CallsBelow,
                                               [TopCall EXCEPT !.pc = "parse", !.doc = doc])
                     /\ UNCHANGED <<sitemapStage, sitemapResult>>
    /\ UNCHANGED <<asmVars, siteSelectors, siteConfigurations, routeVars, discoverVars, retryVars,
                   sitemapInput, sitemapSite, visitedSitemaps, allFoundUrls>>
\* lines 586-648: parseStringPromise has settled; an index starts the loop over its
\* entries, a list of pages adds them and ends the call, as does a rejection or a
\* document of another kind
SitemapParsed ==
    /\ sitemapStage = "running"
    /\ TopCall.pc = "parse"
    /\ allFoundUrls' = FoundAfter(allFoundUrls, TopCall.doc)
    /\ IF TopCall.doc.kind = "sitemapindex"
       THEN /\ sitemapCalls' = Append(CallsBelow, InIndex(TopCall, TopCall.doc.entries))
            /\ UNCHANGED <<sitemapStage, sitemapResult>>
       ELSE ReturnFromCall(allFoundUrls')
    /\ UNCHANGED <<asmVars, siteSelectors, siteConfigurations, routeVars, discoverVars, retryVars,
                   sitemapInput, sitemapSite, visitedSitemaps, sitemapFetches>>

\* one entry of an index: the call for its sitemap, or the end of the loop where the
\* location is no URL
SubSitemap(call, loc, subSitemapUrl) ==
    IF loc = <<>>
    THEN /\ sitemapCalls' = Append(CallsBelow, [call EXCEPT !.pending = Tail(call.pending)])
         /\ UNCHANGED <<sitemapStage, sitemapResult>>
    ELSE IF subSitemapUrl = Null
    THEN ReturnFromCall(allFoundUrls)
    ELSE /\ sitemapCalls' = Append(CallsBelow, [call EXCEPT !.pending = Tail(call.pending)])
                            \o << SitemapCall(subSitemapUrl, call.depth + 1) >>
         /\ UNCHANGED <<sitemapStage, sitemapResult>>
NextSubSitemap ==
    /\ sitemapStage = "running"
    /\ TopCall.pc = "index"
    /\ TopCall.pending # <<>>
    /\ SubSitemap(TopCall, Head(TopCall.pending).loc, Head(TopCall.pending).url)
    /\ UNCHANGED <<asmVars, siteSelectors, siteConfigurations, routeVars, discoverVars, retryVars,
                   sitemapInput, sitemapSite, visitedSitemaps, allFoundUrls, sitemapFetches>>
\* the loop over the entries has ended
FinishIndex ==
    /\ sitemapStage = "running"
    /\ TopCall.pc = "index"
    /\ TopCall.pending = <<>>
    /\ ReturnFromCall(allFoundUrls)
    /\ UNCHANGED <<asmVars, siteSelectors, siteConfigurations, routeVars, discoverVars, retryVars,
                   sitemapInput, sitemapSite, visitedSitemaps, allFoundUrls, sitemapFetches>>

NextSitemap ==
    \/ CallFetchAndParseSitemap \/ EnterSitemap \/ AlternativesSettled \/ SitemapGet
    \/ SitemapParsed \/ NextSubSitemap \/ FinishIndex
SpecSitemap == InitSitemap /\ [][NextSitemap]_vars
\* every await of the call settles: the client has a timeout, the parser and the loop end
SpecSitemapFair == SpecSitemap /\ WF_vars(NextSitemap)

\* ------------------------------------------------------------------ the retry interceptor

\* the number of re-sends the interceptor allows
RetryLimit == 3
\* the status of an error that carries no response
NoStatus == 0

\* how an attempt ends: with a response, or with an error that has a status or a code,
\* and the config of the request unless the error carries none
Responded == [ok |-> TRUE, status |-> 200, code |-> "", config |-> TRUE]
Failed(status, code) == [ok |-> FALSE, status |-> status, code |-> code, config |-> TRUE]
WithoutConfig(error) == [error EXCEPT !.config = FALSE]
Attempts ==
    { Responded,
      Failed(304, "ERR_BAD_REQUEST"), Failed(400, "ERR_BAD_REQUEST"),
      Failed(404, "ERR_BAD_REQUEST"), Failed(429, "ERR_BAD_REQUEST"),
      Failed(499, "ERR_BAD_REQUEST"), Failed(500, "ERR_BAD_RESPONSE"),
      Failed(503, "ERR_BAD_RESPONSE"), Failed(599, "ERR_BAD_RESPONSE"),
      Failed(600, "ERR_BAD_RESPONSE"),
      Failed(NoStatus, "ECONNABORTED"), Failed(NoStatus, "ETIMEDOUT"),
      Failed(NoStatus, "ERR_NETWORK"), WithoutConfig(Failed(NoStatus, "ERR_NETWORK")) }

\* an error the interceptor answers with anything at all
RetriesAnything(status, code) == TRUE
ShouldRetry(status, code) ==
    \/ status = 429
    \/ (status # NoStatus /\ status >= 500 /\ status <= 599)
    \/ code = "ECONNABORTED"
    \/ code = "ETIMEDOUT"
    \/ status = NoStatus

InitRetry ==
    /\ AsmIdle
    /\ RouteIdle
    /\ DiscoverIdle
    /\ SitemapIdle
    /\ siteConfigurations = NoProfiles
    /\ clientStage = "idle"
    /\ clientAttempts = <<>>
    /\ retryCount = 0
    /\ clientOutcome = "none"

\* a request through externalAxiosInstance: its config has no retryCount yet
SendRequest ==
    /\ clientStage = "idle"
    /\ clientStage' = "sent"
    /\ UNCHANGED <<asmVars, siteSelectors, siteConfigurations, routeVars, discoverVars, sitemapVars,
                   clientAttempts, retryCount, clientOutcome>>
\* the rejected handler of the interceptor
OnRejected(error) ==
    IF ~error.config
    THEN clientStage' = "settled" /\ clientOutcome' = "rejected" /\ UNCHANGED retryCount
    ELSE IF ShouldRetry(error.status, error.code) /\ retryCount < RetryLimit
    THEN clientStage' = "delay" /\ retryCount' = retryCount + 1 /\ UNCHANGED clientOutcome
    ELSE clientStage' = "settled" /\ clientOutcome' = "rejected" /\ UNCHANGED retryCount
\* an attempt ends and the interceptor handles what it ended with
AttemptEnds ==
    /\ clientStage = "sent"
    /\ \E attempt \in Attempts :
          /\ clientAttempts' = Append(clientAttempts, attempt)
          /\ IF attempt.ok
             THEN clientStage' = "settled" /\ clientOutcome' = "fulfilled"
                  /\ UNCHANGED retryCount
             ELSE OnRejected(attempt)
    /\ UNCHANGED <<asmVars, siteSelectors, siteConfigurations, routeVars, discoverVars, sitemapVars>>
\* the delay is over: the interceptor sends the config again
Resend ==
    /\ clientStage = "delay"
    /\ clientStage' = "sent"
    /\ UNCHANGED <<asmVars, siteSelectors, siteConfigurations, routeVars, discoverVars, sitemapVars,
                   clientAttempts, retryCount, clientOutcome>>

NextRetry == SendRequest \/ AttemptEnds \/ Resend
SpecRetry == InitRetry /\ [][NextRetry]_vars

\* ------------------------------------------------------------------ properties

\* C1: when the main Product item of a page's JSON-LD has an offer whose price is not
\* blank, the record extractBaseDataFromHtml returns carries that price, its first
\* comma read as the decimal point, whatever the price selectors match on the page.
C1_StructuredPriceWins ==
    (/\ asmStage = "returned"
     /\ mainProductSchema(asmDoc).present
     /\ mainProductSchema(asmDoc).offers.k # "undefined"
     /\ sanitizeText(FirstOffer(mainProductSchema(asmDoc).offers).price) # Null)
    => data.price =
          ReplaceFirstChar(sanitizeText(FirstOffer(mainProductSchema(asmDoc).offers).price),
                           ",", ".")

\* a product page returned with the JSON-LD price 19,99 although .price shows 1.234,56
C1_SelectorPriceIgnored ==
    /\ asmStage = "returned"
    /\ asmDoc.ld = <<LdBlock(<<ProductFull>>)>>
    /\ FirstText(asmDoc, ".price") = <<"1", ".", "2", "3", "4", ",", "5", "6", " ", "₺">>
    /\ data.price = <<"1", "9", ".", "9", "9">>

\* C2: step 5 only fills gaps: a field that the seeding from JSON-LD left non-empty
\* (price, stockStatus, category, features of a product; publishDate, blogCategories,
\* blogContentSample of a blog post) has the seeded value after step 5.
C2_FillKeepsSeededFields ==
    [][(asmStage = "seeded" /\ asmStage' = "filled") =>
          /\ (data.pageTypeGuess = "product" =>
                /\ (Truthy(data.price) => data'.price = data.price)
                /\ (Truthy(data.stockStatus) => data'.stockStatus = data.stockStatus)
                /\ (Truthy(data.category) => data'.category = data.category)
                /\ (~NoItems(data.features) => data'.features = data.features))
          /\ (data.pageTypeGuess = "blog" =>
                /\ (Truthy(data.publishDate) => data'.publishDate = data.publishDate)
                /\ (~NoItems(data.blogCategories)
                      => data'.blogCategories = data.blogCategories)
                /\ (Truthy(data.blogContentSample)
                      => data'.blogContentSample = data.blogContentSample))]_vars

\* C3: with no main JSON-LD item and no og:type, a URL path pattern that matches
\* decides pageTypeGuess, whatever the DOM heuristics say.
C3_UrlPatternDecidesBeforeDom ==
    (/\ asmStage = "page-type"
     /\ TypeFromSchema(asmDoc) = "unknown"
     /\ ~Truthy(data.ogType)
     /\ TypeFromUrl(asmDoc, asmUrl) # "unknown")
    => data.pageTypeGuess = TypeFromUrl(asmDoc, asmUrl)

\* C4: the handler answers with pageTypeGuess "error" only when no fetch produced HTML.
C4_ErrorOnlyWithoutHtml ==
    (/\ operationStage = "returned"
     /\ response.kind = "json"
     /\ response.body.pageTypeGuess = "error")
    => htmlContent.k = "null"

\* C5: extractBaseDataFromHtml never throws, whatever the document and the page URL.
C5_ExtractNeverThrows == asmStage # "threw"

\* C6: when the light fetch fails and the browser fails or renders nothing, the handler
\* returns a JSON record with pageTypeGuess "error", aiDetectedType "client_error" and a
\* message, after one light fetch and one browser launch.
C6_TotalFailureIsReported ==
    (/\ operationStage = "returned"
     /\ axiosFetchError # Null
     /\ htmlContent.k = "null")
    => /\ response.kind = "json"
       /\ response.body.pageTypeGuess = "error"
       /\ response.body.aiDetectedType = "client_error"
       /\ Truthy(response.body.message)
       /\ axiosCalls = 1
       /\ browserLaunches = 1

\* the light fetch failed, the browser rendered an empty page, and the handler returned
C6_BothFetchesCameBackEmpty ==
    /\ operationStage = "returned"
    /\ axiosFetchError # Null
    /\ htmlContent.k = "null"
    /\ newHtmlContent.k = "html"
    /\ fetchMethod = FM.headless_empty_content

\* C7: the handler always returns a response; after an exception at any stage the
\* response is a record with pageTypeGuess "error" and an error message.
C7_HandlerAlwaysResponds ==
    operationStage = "returned"
    => /\ response.kind = "json"
       /\ (thrown # Null => /\ response.body.pageTypeGuess = "error"
                            /\ Truthy(response.body.error))

\* C8: the headless stage follows the decision exactly when the caller set the override,
\* the light fetch gave no HTML, the record's title is missing, the placeholder or the
\* URL, its main text is shorter than 300 characters, it is a product without a real
\* title or a positive price, or it is unknown with less than 800 characters; otherwise
\* the handler goes on to the final assembly and no browser is launched.
C8_HeadlessExactlyWhenNeeded ==
    [][operationStage = "headless-decision" =>
          /\ (operationStage' = "headless-fetch-attempt") <=>
                (\/ request.useHeadlessOverride
                 \/ htmlContent.k = "null"
                 \/ ~Truthy(baseData.title)
                 \/ baseData.title = NoTitle
                 \/ baseData.title = request.url
                 \/ TextLen(baseData.mainTextContent) < MinTextForCheerio
                 \/ /\ baseData.pageTypeGuess = "product"
                    /\ \/ ~cheerioFoundTitle(baseData, request.url)
                       \/ ~cheerioFoundPriceForProduct(baseData)
                 \/ /\ baseData.pageTypeGuess = "unknown"
                    /\ TextLen(baseData.mainTextContent) < MinTextForUnknown)
          /\ (operationStage' # "headless-fetch-attempt" =>
                operationStage' = "final-data-assembly" /\ browserLaunches' = 0)]_vars

\* a product page with title, price and exactly 300 characters of text goes on without
\* a browser
C8_ProductPageSkipsHeadless ==
    /\ operationStage = "final-data-assembly"
    /\ ~useEffectiveHeadless
    /\ browserLaunches = 0
    /\ baseData.pageTypeGuess = "product"
    /\ TextLen(baseData.mainTextContent) = MinTextForCheerio

\* C9: after the browser rendered the page, the record and the stored HTML change only
\* if the rendered HTML is more than 200 characters longer than the stored HTML or no
\* HTML was stored; then the record is the one computed from the rendered HTML alone.
\* Otherwise record and stored HTML stay as they are and fetchMethod records the no-op.
C9_RenderedReplacesOnlyWhenLarger ==
    /\ [][(operationStage = "headless-fetch-attempt" /\ awaiting = "content"
           /\ awaiting' # "content") =>
             /\ baseData' = baseData
             /\ IF newHtmlContent'.doc.len > HtmlLen(htmlContent) + MinHtmlGain
                   \/ htmlContent.k = "null"
                THEN awaiting' = "getStoredSiteSelectors" => htmlContent' = newHtmlContent'
                ELSE /\ htmlContent' = htmlContent
                     /\ fetchMethod' = FM.headless_no_significant_change
                     /\ operationStage' = "headless-closing"]_vars
    /\ [][(operationStage = "headless-fetch-attempt" /\ awaiting # "content") =>
             /\ htmlContent' = htmlContent
             /\ (newHtmlContent.k = "html" /\ baseData' # baseData) =>
                   awaiting = "extractBaseDataFromHtml" /\ htmlContent = newHtmlContent
             /\ fetchMethod' = FM.headless_success_reparsed =>
                   \E rejects \in BOOLEAN :
                      baseData' = [extractBaseDataFromHtml(newHtmlContent.doc, request.url,
                                                          siteConfigurations, rejects)
                                    EXCEPT !.url = request.url, !.error = Null,
                                           !.message = Null]]_vars

\* the browser rendered HTML exactly 200 characters longer than the stored HTML, and the
\* light-fetch record was kept
C9_MarginalGainKept ==
    /\ operationStage = "headless-closing"
    /\ fetchMethod = FM.headless_no_significant_change
    /\ newHtmlContent.k = "html"
    /\ newHtmlContent.doc.len = HtmlLen(htmlContent) + MinHtmlGain
    /\ baseData.title = <<"S", "h", "o", "p", " ", "T", "e", "s", "t", " ", "P", "a", "g", "e">>

\* C10: no AI call is made for a record whose main text has at most 50 characters.
C10_NoAiCallOnShortText ==
    [][aiCalls' > aiCalls => TextLen(finalData.mainTextContent) > MinTextForAi]_vars

\* a product record with missing fields and exactly 50 characters of text went past the
\* analysis without an AI call
C10_ShortTextSkipsAi ==
    /\ operationStage = "final-currency-mapping"
    /\ aiCalls = 0
    /\ AnalysisTriggered(finalData)
    /\ finalData.pageTypeGuess = "product"
    /\ TextLen(finalData.mainTextContent) = MinTextForAi

\* C11: for a record classified product whose main text is longer than 50 characters,
\* the decision asks for the analysis whenever features, price, stock status, images or
\* category is missing, and the task description names each of these five that is
\* missing and none that is present.
C11_ProductTaskNamesMissing ==
    [][(/\ operationStage = "ai-analysis-decision"
        /\ finalData.pageTypeGuess = "product"
        /\ TextLen(finalData.mainTextContent) > MinTextForAi)
       => /\ (\/ NoItems(finalData.features) \/ ~Truthy(finalData.price)
              \/ ~Truthy(finalData.stockStatus) \/ NoItems(finalData.images)
              \/ ~Truthy(finalData.category))
             => (perform_AI_analysis' /\ operationStage' = "ai-call")
          /\ Includes(ai_task_description', <<"ü", "r", "ü", "n", " ", "ö", "z", "e", "l", "l",
                  "i", "k", "l", "e", "r", "i">>) <=> NoItems(finalData.features)
          /\ Includes(ai_task_description', <<"f", "i", "y", "a",
                  "t">>) <=> ~Truthy(finalData.price)
          /\ Includes(ai_task_description', <<"s", "t", "o", "k", " ", "d", "u", "r", "u", "m",
                  "u">>) <=> ~Truthy(finalData.stockStatus)
          /\ Includes(ai_task_description', <<"a", "n", "a", " ", "ü", "r", "ü", "n", " ", "g",
                  "ö", "r", "s", "e", "l", "i">>) <=> NoItems(finalData.images)
          /\ Includes(ai_task_description', <<"ü", "r", "ü", "n", " ", "k", "a", "t", "e", "g",
                  "o", "r", "i", "s", "i">>) <=> ~Truthy(finalData.category)
      ]_vars

\* a product with a price and a category but no image and no stock status is sent to the
\* analysis with a task that names exactly what it lacks
C11_TaskNamesImageAndStock ==
    /\ operationStage = "ai-call"
    /\ finalData.pageTypeGuess = "product"
    /\ Truthy(finalData.price)
    /\ NoItems(finalData.images)
    /\ Includes(ai_task_description, <<"e", "n", " ", "a", "z", " ", "1", " ", "a", "n", "a", " ",
            "ü", "r", "ü", "n", " ", "g", "ö", "r", "s", "e", "l", "i">>)
    /\ ~Includes(ai_task_description, <<"f", "i", "y", "a", "t">>)

\* an LLM value that may overwrite: present, not null, not empty, not the text "null"
UsableAiValue(v) == Truthy(v) /\ v # <<"n", "u", "l", "l">>
OverwrittenIfUsable(aiValue, assembled) == IF UsableAiValue(aiValue) THEN aiValue ELSE assembled

\* C12: when an answer is merged, title, meta description, price, currency code, stock
\* status, category, publish date, content summary, brand, SKU and author each take the
\* LLM value if it is present, non-null, non-empty and not the text "null", and
\* otherwise keep the assembled value.
C12_MergeOverwritesOnlyUsable ==
    [][(operationStage = "ai-call" /\ AiSucceeded(aiResult'))
       => /\ finalData'.title = OverwrittenIfUsable(aiResult'.pageTitle, finalData.title)
          /\ finalData'.metaDescription =
                OverwrittenIfUsable(aiResult'.metaDescription, finalData.metaDescription)
          /\ finalData'.price =
                OverwrittenIfUsable(aiResult'.productInfo.price, finalData.price)
          /\ finalData'.currencyCode =
                OverwrittenIfUsable(aiResult'.productInfo.currency, finalData.currencyCode)
          /\ finalData'.stockStatus =
                OverwrittenIfUsable(aiResult'.productInfo.stockStatus, finalData.stockStatus)
          /\ finalData'.category =
                OverwrittenIfUsable(aiResult'.categoryPageInfo.name,
                    OverwrittenIfUsable(JoinTexts(aiResult'.productInfo.categoriesFromPage.v),
                                        finalData.category))
          /\ finalData'.publishDate =
                OverwrittenIfUsable(aiResult'.blogPostInfo.publishDate, finalData.publishDate)
          /\ finalData'.blogContentSample =
                OverwrittenIfUsable(aiResult'.blogPostInfo.summary, finalData.blogContentSample)
          /\ finalData'.aiProductBrand =
                OverwrittenIfUsable(aiResult'.productInfo.brand, finalData.aiProductBrand)
          /\ finalData'.aiProductSku =
                OverwrittenIfUsable(aiResult'.productInfo.sku, finalData.aiProductSku)
          /\ finalData'.aiBlogAuthor =
                OverwrittenIfUsable(aiResult'.blogPostInfo.author, finalData.aiBlogAuthor)
      ]_vars

\* C13: merging an answer leaves pageTypeGuess as it was and stores the LLM's type in
\* aiDetectedType and aiExtractedData.detectedPageType; the record returned after a merge
\* carries the pageTypeGuess of the assembled record, also when the two types differ.
C13_MergeKeepsPageTypeGuess ==
    /\ [][(operationStage = "ai-call" /\ AiSucceeded(aiResult'))
          => /\ finalData'.pageTypeGuess = finalData.pageTypeGuess
             /\ finalData'.aiDetectedType = aiResult'.detectedPageType
             /\ finalData'.aiExtractedData.detectedPageType = aiResult'.detectedPageType
         ]_vars
    /\ []((operationStage = "returned" /\ AiSucceeded(aiResult))
          => /\ response.body.pageTypeGuess = baseData.pageTypeGuess
             /\ response.body.aiExtractedData.detectedPageType = aiResult.detectedPageType)

\* a page the assembler called a product and the LLM a blog post is returned with both
C13_TypesDisagree ==
    /\ operationStage = "returned"
    /\ aiResult.detectedPageType = "blogPost"
    /\ response.body.pageTypeGuess = "product"
    /\ response.body.aiDetectedType = "blogPost"
    /\ response.body.aiExtractedData.detectedPageType = "blogPost"

\* the handler of route.ts on a failed analysis: a failed analysis changes aiDetectedType
\* and aiExtractedData only
AiFailureKeepsRecord ==
    [][(operationStage = "ai-call" /\ ~AiSucceeded(aiResult'))
       => /\ [finalData' EXCEPT !.aiDetectedType = finalData.aiDetectedType,
                                !.aiExtractedData = finalData.aiExtractedData] = finalData
          /\ Truthy(finalData'.aiExtractedData.error)
      ]_vars

\* C14: when the LLM call fails or its reply cannot be parsed, the assembled record keeps
\* pageTypeGuess, title, error and message as they were before the attempt, and the
\* failure is recorded in aiExtractedData only.
C14_AiFailureRecordedOnly ==
    (operationStage = "database-save" /\ perform_AI_analysis /\ Truthy(aiResult.error))
    => /\ finalData.pageTypeGuess = baseData.pageTypeGuess
       /\ finalData.title = baseData.title
       /\ finalData.error = baseData.error
       /\ finalData.message = baseData.message
       /\ Truthy(finalData.aiExtractedData.error)

\* a record of a product page turned into an error record after the LLM failed, on its
\* way to the store
AiFailureMadeErrorRecord ==
    /\ operationStage = "database-save"
    /\ perform_AI_analysis /\ Truthy(aiResult.error)
    /\ baseData.pageTypeGuess = "product" /\ ~Truthy(baseData.error)
    /\ finalData.pageTypeGuess = "error"
    /\ finalData.error = aiResult.error
    /\ finalData.aiDetectedType = "client_error"

\* the assembly of the second handler stopped by the call of mapCurrencySymbolToCode
CurrencyMappingThrew ==
    /\ operationStage = "returned" /\ response.status = 500
    /\ thrown \in NotAFunction(<<"m", "a", "p", "C", "u", "r", "r", "e", "n", "c", "y", "S", "y",
            "m", "b", "o", "l", "T", "o", "C", "o", "d", "e">>)
    /\ Truthy(baseData.currencySymbol) /\ ~Truthy(baseData.currencyCode)
    /\ finalData = UnsetFinal
    /\ response.body.message
         = <<"E", "r", "r", "o", "r", " ", "a", "t", " ", "s", "t", "a", "g", "e", " ", "f", "i",
                 "n", "a", "l", "-", "d", "a", "t", "a", "-", "a", "s", "s", "e", "m", "b", "l",
                         "y", ":", " ">> \o Take(thrown, MessageLimit)
\* the first save and the save of the error record both rejected
BothSavesRejected ==
    /\ operationStage = "returned" /\ response.status = 500
    /\ thrown = PrismaTypeUnbound
    /\ finalData # UnsetFinal
    /\ response.body.message = <<"E", "r", "r", "o", "r", " ", "a", "t", " ", "s", "t", "a", "g",
            "e", " ", "d", "a", "t", "a", "b", "a", "s", "e", "-", "s", "a", "v", "e", ":",
                    " ">> \o PrismaTypeUnbound
    /\ response.body.images = LNull
\* the second handler never answers 200
CustomNeverSucceeds ==
    operationStage = "returned" => response.status \in {400, 500}
\* a launch that is never asked for is not counted
LaunchMethodMissingNoLaunch ==
    /\ operationStage = "returned" /\ headlessErrorDetail = LaunchMethodMissing
    /\ browserLaunches = 0 /\ baseData.pageTypeGuess = "error"
\* the record of an assembled page carries null for error and message
AssembledPageHasNullError ==
    /\ operationStage = "cheerio-base-extraction" /\ awaiting = "canRunCustomAI"
    /\ HasHtml(htmlContent) /\ baseData.error = Null /\ baseData.message = Null
    /\ baseData.pageTypeGuess = "product"

\* C15: the images of every record the handler returns are pairwise different in src,
\* whatever the page and the LLM's image list contributed.
C15_ImagesUniqueBySrc ==
    (operationStage = "returned" /\ response.kind = "json")
    => \A i, j \in 1..Len(response.body.images.v) :
          i # j => response.body.images.v[i].src # response.body.images.v[j].src

AsmImagesUniqueBySrc ==
    asmStage = "returned"
    => \A i, j \in 1..Len(data.images.v) : i # j => data.images.v[i].src # data.images.v[j].src

\* C16: whenever the handler has returned, a browser it launched is closed, whether the
\* rendering succeeded, the navigation failed or a later step threw.
C16_BrowserClosedOnReturn ==
    operationStage = "returned" => playwrightBrowser = "null"

\* the browser was launched, the navigation came back with status 404, and the handler
\* returned with the browser closed
C16_ClosedAfterNavigationError ==
    /\ operationStage = "returned"
    /\ browserLaunches = 1
    /\ headlessErrorDetail = <<"P", "l", "a", "y", "w", "r", "i", "g", "h", "t", " ", "n", "a",
            "v", "i", "g", "a", "t", "i", "o", "n", " ", "f", "a", "i", "l", "e", "d", " ", "w",
                    "i", "t", "h", " ", "s", "t", "a", "t", "u", "s", ":", " ", "4", "0", "4">>
    /\ playwrightBrowser = "null"

\* ------------------------------------------------------------------ the discovery run

TargetOf(key) ==
    TARGET_SELECTOR_KEYS[CHOOSE i \in 1..Len(TARGET_SELECTOR_KEYS) :
                            TARGET_SELECTOR_KEYS[i].key = key]
\* the samples the candidates of a field are scored against
ScoredSamples(key) == samplesToScoreAgainst(TargetOf(key), htmlSamples)
MatchesNowhere(selector, samples) ==
    \A i \in 1..Len(samples) : Len(Q(samples[i].html, selector)) = 0
AllMatchNowhere(candidates, samples) ==
    \A i \in 1..Len(candidates) : MatchesNowhere(candidates[i].selector, samples)

\* C17: in a discovery run, a candidate selector that matches zero elements on every
\* sample page it is scored against is never stored in the discovered profile, whatever
\* the field and whatever the model proposed: every rule of the profile under
\* construction, and of the profile the run reports, matches on one of those samples.
C17_NoMatchNeverStored ==
    /\ \A k \in DOMAIN finalDiscoveredSelectors :
          ~MatchesNowhere(finalDiscoveredSelectors[k][1].selector, ScoredSamples(k))
    /\ \A k \in DOMAIN discoverResponse.selectors :
          ~MatchesNowhere(discoverResponse.selectors[k][1].selector, ScoredSamples(k))
\* a run has ended whose proposal had a field with nothing but selectors matching nowhere
C17_OnlyDeadCandidates ==
    /\ discoverStage = "returned"
    /\ discoverResponse.status = 200
    /\ \E k \in DOMAIN initialAiSelectors :
          AllMatchNowhere(initialAiSelectors[k], ScoredSamples(k))

\* the score of one sample as stated: 5 for a match, 3 more for a count that fits the
\* expected multiplicity, 2 more for a first match with a value that is not empty
StatedSampleScore(elements, attr, multiple) ==
    IF elements = <<>> THEN 0
    ELSE 5
         + (IF (multiple /\ Len(elements) > 1) \/ (~multiple /\ Len(elements) = 1)
            THEN 3 ELSE 0)
         + (IF sanitizeTextOfRoute(IF attr = "" THEN elements[1].text
                                   ELSE ElAttr(elements[1], attr)) = Null
            THEN 0 ELSE 2)
RECURSIVE StatedTotal(_, _, _)
StatedTotal(candidate, multiple, samples) ==
    IF samples = <<>> THEN 0
    ELSE StatedSampleScore(Q(Head(samples).html, candidate.selector), candidate.attr, multiple)
         + StatedTotal(candidate, multiple, Tail(samples))
StatedMatches(candidate, samples) ==
    Cardinality({ i \in 1..Len(samples) : Q(samples[i].html, candidate.selector) # <<>> })
\* (average score)^2 * (fraction of samples with a match), times n^3 for n samples
StatedAggregate(candidate, multiple, samples) ==
    StatedTotal(candidate, multiple, samples) * StatedTotal(candidate, multiple, samples)
    * StatedMatches(candidate, samples)
\* the aggregate is greater than 3.0
StatedClears(aggregate, n) == aggregate > 3 * 3 * n * n * n
\* the earliest candidate among those of the highest aggregate
StatedBest(candidates, multiple, samples) ==
    CHOOSE i \in 1..Len(candidates) :
        /\ \A j \in 1..Len(candidates) :
              StatedAggregate(candidates[j], multiple, samples)
                 <= StatedAggregate(candidates[i], multiple, samples)
        /\ \A j \in 1..(i - 1) :
              StatedAggregate(candidates[j], multiple, samples)
                 < StatedAggregate(candidates[i], multiple, samples)
StatedRule(candidates, multiple, samples) ==
    Cfg(candidates[StatedBest(candidates, multiple, samples)].selector,
        candidates[StatedBest(candidates, multiple, samples)].attr)
StatedAccepted(candidates, multiple, samples) ==
    StatedClears(StatedAggregate(candidates[StatedBest(candidates, multiple, samples)],
                                 multiple, samples), Len(samples))
FieldAsStated(profile, target, proposed, samples) ==
    IF target.key \in DOMAIN proposed
    THEN /\ target.key \in DOMAIN profile
            <=> StatedAccepted(proposed[target.key], target.multiple, samples)
         /\ target.key \in DOMAIN profile
            => profile[target.key] = << StatedRule(proposed[target.key], target.multiple,
                                                   samples) >>
    ELSE target.key \notin DOMAIN profile

\* C18: for each target field, with the score of a sample 5 for a match, plus 3 for a
\* count that fits the expected multiplicity, plus 2 for a first match with a non-empty
\* value, and the aggregate (average score of the samples) * sqrt(fraction of the scored
\* samples with a match), the discovered profile contains the field if and only if the
\* highest aggregate among its candidates is above 3.0, and the rule stored is the
\* candidate of that aggregate, the earliest proposed one on a tie. Stated of every
\* field the loop has passed, and of the profile the run reports.
C18_ProfileHoldsBestAboveThreshold ==
    /\ \A i \in 1..(targetIndex - 1) :
          FieldAsStated(finalDiscoveredSelectors, TARGET_SELECTOR_KEYS[i], initialAiSelectors,
                        samplesToScoreAgainst(TARGET_SELECTOR_KEYS[i], htmlSamples))
    /\ discoverStage = "returned" /\ discoverResponse.status = 200
       => \A i \in 1..Len(TARGET_SELECTOR_KEYS) :
             FieldAsStated(discoverResponse.selectors, TARGET_SELECTOR_KEYS[i],
                           initialAiSelectors,
                           samplesToScoreAgainst(TARGET_SELECTOR_KEYS[i], htmlSamples))
\* a run has ended that kept the earlier of two candidates of the same aggregate, and
\* left out a field whose only candidate matched on a sample but stayed below 3.0
C18_TieAndBelowThreshold ==
    /\ discoverStage = "returned"
    /\ "title" \in DOMAIN initialAiSelectors
    /\ initialAiSelectors["title"][1].selector = ".headline"
    /\ StatedAggregate(initialAiSelectors["title"][1], FALSE, ScoredSamples("title"))
       = StatedAggregate(initialAiSelectors["title"][2], FALSE, ScoredSamples("title"))
    /\ discoverResponse.selectors["title"] = << Cfg(".headline", "") >>
    /\ "stockStatus" \in DOMAIN initialAiSelectors
    /\ ~AllMatchNowhere(initialAiSelectors["stockStatus"], ScoredSamples("stockStatus"))
    /\ "stockStatus" \notin DOMAIN discoverResponse.selectors

\* C20: a discovery run makes at most one request to the model, whatever the number of
\* target fields, candidates and samples, and the testing of the candidates after that
\* request makes none.
C20_OneAiRequestPerRun ==
    /\ [](aiRequests <= 1)
    /\ [][discoverStage = "test-candidates" => aiRequests' = aiRequests]_vars
\* a run has ended that tested the candidates of several fields on three samples
C20_SeveralFieldsTested ==
    /\ discoverStage = "returned"
    /\ aiRequests = 1
    /\ Len(htmlSamples) = MAX_SAMPLE_PAGES_FOR_DISCOVERY
    /\ Cardinality(DOMAIN initialAiSelectors) > 2
    /\ Cardinality(DOMAIN discoverResponse.selectors) > 1

\* C19: every discovery run for a syntactically valid site URL ends without throwing,
\* without failing, and with the profile store holding, under the hostname of the site,
\* exactly the mapping from each accepted field to the one-element list of its best
\* rule, the empty mapping included.
C19_RunStoresDiscoveredMapping ==
    discoverStage \in {"returned", "threw"} /\ Truthy(siteUrl) /\ ParseUrl(siteUrl).ok
    => /\ discoverStage = "returned"
       /\ discoverResponse.status = 200
       /\ siteHostname \in DOMAIN siteConfigurations
       /\ siteConfigurations[siteHostname] = finalDiscoveredSelectors
\* the profile of an earlier run stays in the store when the run accepts no field
StaleProfileLeft ==
    /\ discoverStage = "returned"
    /\ discoverResponse.status = 200
    /\ discoverResponse.selectors = NoSelectors
    /\ siteHostname \in DOMAIN siteConfigurations
    /\ siteConfigurations[siteHostname] # NoSelectors

\* ------------------------------------------------------------------ inference, prices, titles

\* the crumb a page type takes its category from: the last one on a category page,
\* the one before it otherwise
StatedCrumb(type, crumbs) ==
    IF type = "category" THEN crumbs[Len(crumbs)].text ELSE crumbs[Len(crumbs) - 1].text

\* C21: with an empty category and a breadcrumb trail, the structure step takes the
\* category from the trail (product: the crumb before the last; blog: the same crumb as a
\* one-element list; category page: the last crumb), and takes nothing when that crumb
\* is a home label, the synthesized home entry included.
C21_CategoryFromTrailUnlessHome ==
    [][(asmStage = "filled" /\ asmStage' = "structured" /\ data'.breadcrumbs.k = "list")
       => /\ (data.pageTypeGuess = "product" /\ ~Truthy(data.category)
              /\ Len(data'.breadcrumbs.v) > 1)
             => IF IsHomeLabel(StatedCrumb("product", data'.breadcrumbs.v))
                THEN ~Truthy(data'.category)
                ELSE data'.category = StatedCrumb("product", data'.breadcrumbs.v)
          /\ (data.pageTypeGuess = "blog" /\ NoItems(data.blogCategories)
              /\ Len(data'.breadcrumbs.v) > 1)
             => IF IsHomeLabel(StatedCrumb("blog", data'.breadcrumbs.v))
                THEN NoItems(data'.blogCategories)
                ELSE data'.blogCategories = L(<<StatedCrumb("blog", data'.breadcrumbs.v)>>)
          /\ (data.pageTypeGuess = "category" /\ ~Truthy(data.category)
              /\ ~IsHomeLabel(StatedCrumb("category", data'.breadcrumbs.v)))
             => data'.category = StatedCrumb("category", data'.breadcrumbs.v)
      ]_vars

\* the same step as the code performs it: the crumb is taken whatever its label
TrailCrumbTakenAsIs ==
    [][(asmStage = "filled" /\ asmStage' = "structured" /\ data'.breadcrumbs.k = "list"
        /\ data.pageTypeGuess = "product" /\ ~Truthy(data.category)
        /\ Len(data'.breadcrumbs.v) > 1)
       => data'.category = StatedCrumb("product", data'.breadcrumbs.v)
      ]_vars
\* a product record whose category is the synthesized home entry
HomeEntryAsCategory ==
    /\ asmStage = "returned"
    /\ data.pageTypeGuess = "product"
    /\ data.category = <<"A", "n", "a", "s", "a", "y", "f", "a">>
\* a product record whose category is the crumb before the last of a longer trail
CategoryFromLongerTrail ==
    /\ asmStage = "returned"
    /\ data.pageTypeGuess = "product"
    /\ Len(data.breadcrumbs.v) = 3
    /\ data.category = <<"K", "i", "t", "c", "h", "e", "n", "w", "a", "r", "e">>

\* the text of the price element that step 5 reads
SelectorPrice ==
    getElementText(asmDoc, Site(siteSelectors, "price"),
                   General("price"), "")
CurrencySigns == {"$", "€", "₺", "£", "¥"}
\* digits grouped by '.', decimals after one ',', and a currency sign at either end
IsGroupedPrice(raw) ==
    /\ Truthy(raw)
    /\ Len(SelectSeq(raw, LAMBDA c : c = ",")) = 1
    /\ Len(SelectSeq(raw, LAMBDA c : c \in CurrencySigns)) = 1
    /\ (raw[1] \in CurrencySigns \/ raw[Len(raw)] \in CurrencySigns)
    /\ \A i \in 1..Len(raw) : raw[i] \in Digits \cup CurrencySigns \cup {".", ",", " "}
\* the digits of the raw text, the ',' turned into the decimal point
StatedPrice(raw) ==
    ReplaceFirstChar(SelectSeq(raw, LAMBDA c : c \in Digits \/ c = ","), ",", ".")
\* the code the lookup table has for the sign of the raw text
StatedCode(raw) == mapCurrencySymbolToCode(SelectSeq(raw, LAMBDA c : c \in CurrencySigns))

\* C22: a selector-extracted price of '.'-grouped digits with a ',' decimal separator and
\* a currency sign before or after it becomes the same digits with one decimal point,
\* and its sign maps to the ISO code of the lookup table ("1.234,56 TL-sign" gives
\* "1234.56" and TRY).
C22_GroupedPriceNormalized ==
    [][(asmStage = "seeded" /\ asmStage' = "filled" /\ data.pageTypeGuess = "product"
        /\ ~Truthy(data.price) /\ ~Truthy(data.currencySymbol)
        /\ IsGroupedPrice(SelectorPrice))
       => /\ data'.price = StatedPrice(SelectorPrice)
          /\ mapCurrencySymbolToCode(data'.currencySymbol) = StatedCode(SelectorPrice)
      ]_vars

\* the price of "1.234,56 TL-sign" comes out whole, without a symbol to map
SignAfterIsDropped ==
    /\ asmStage = "filled"
    /\ SelectorPrice = <<"1", ".", "2", "3", "4", ",", "5", "6", " ", "₺">>
    /\ data.price = <<"1", "2", "3", "4", ".", "5", "6">>
    /\ ~Truthy(data.currencySymbol)
\* the price of "TL-sign 1.234,56" written without a space loses its first digit
SignBeforeTakesDigit ==
    /\ asmStage = "filled"
    /\ SelectorPrice = <<"₺", "1", ".", "2", "3", "4", ",", "5", "6">>
    /\ data.price = <<"2", "3", "4", ".", "5", "6">>
    /\ data.currencySymbol = <<"₺", "1">>

\* only digits, with at most one '.'
IsDecimalPointString(price) ==
    /\ \A i \in 1..Len(price) : price[i] \in Digits \cup {"."}
    /\ Len(SelectSeq(price, LAMBDA c : c = ".")) <= 1

\* C23: the price of every record the assembler returns is absent or a decimal-point
\* string: digits with at most one '.', no ',', no whitespace and no currency symbol.
C23_PriceIsDecimalPointString ==
    asmStage = "returned" => (IsNil(data.price) \/ IsDecimalPointString(data.price))

\* the selector price "1,234.56" returned as "1.234.56"
PriceWithTwoPoints ==
    /\ asmStage = "returned"
    /\ data.price = <<"1", ".", "2", "3", "4", ".", "5", "6">>
\* the record of a product page whose price comes from the offer "19,99"
OfferPriceWithPoint ==
    /\ asmStage = "returned"
    /\ data.price = <<"1", "9", ".", "9", "9">>

\* the nullable text fields of the record
NullableTextFields ==
    { "title", "metaDescription", "price", "currencySymbol", "stockStatus", "category",
      "publishDate", "blogContentSample", "ogImage", "canonicalUrl", "mainTextContent" }

\* C24: no nullable text field of a record the assembler returns holds the empty
\* string; what was not found is null or absent.
C24_NoEmptyStringInRecord ==
    asmStage = "returned" => \A f \in NullableTextFields : data[f] # <<>>

\* the same for every field but the main text
NoEmptyStringButMainText ==
    asmStage = "returned"
    => \A f \in NullableTextFields \ {"mainTextContent"} : data[f] # <<>>
\* a page without text returned with the empty string as its main text
EmptyMainText ==
    /\ asmStage = "returned"
    /\ data.mainTextContent = <<>>

\* C28: a title that is still the placeholder (the last segment of the URL path, or the
\* fixed one) is replaced, when the main text has more than 10 characters, by a title
\* made of the first 70 characters of the main text, never longer than 70 characters
\* plus the ellipsis.
C28_PlaceholderTitleReplaced ==
    [][(asmStage = "structured" /\ asmStage' = "returned"
        /\ Q(asmDoc, "title") = <<>> /\ Q(asmDoc, "h1") = <<>>
        /\ data.title \in {TitleSlug(asmUrl), NoTitle}
        /\ Len(data'.mainTextContent) > 10)
       => /\ data'.title # data.title
          /\ Len(data'.title) <= 70 + 3
          /\ StartsWith(data'.mainTextContent,
                        Take(data'.title, Min(Len(data'.title), 60)))
      ]_vars

\* the same with the fixed placeholder only, as line 1041 tests it
FixedPlaceholderReplaced ==
    [][(asmStage = "structured" /\ asmStage' = "returned"
        /\ (~Truthy(data.title) \/ data.title = NoTitle)
        /\ Len(data'.mainTextContent) > 10)
       => /\ data'.title # data.title
          /\ Len(data'.title) <= 70 + 3
          /\ (Len(data'.mainTextContent) > 70
              => /\ EndsWith(data'.title, <<".", ".", ".">>)
                 /\ StartsWith(data'.mainTextContent, Take(data'.title, Len(data'.title) - 3)))
          /\ (Len(data'.mainTextContent) <= 64 => data'.title = data'.mainTextContent)
      ]_vars
\* a page without title element and h1 returned under the last segment of its URL
SlugTitleKept ==
    /\ asmStage = "returned"
    /\ Q(asmDoc, "title") = <<>> /\ Q(asmDoc, "h1") = <<>>
    /\ asmUrl = UrlPlain
    /\ data.title = <<"4", "2">>
    /\ Len(data.mainTextContent) > 10
\* a page at the root URL returned under a title cut from its main text
TitleFromMainText ==
    /\ asmStage = "returned"
    /\ asmUrl = UrlRoot
    /\ Len(data.mainTextContent) = 100
    /\ EndsWith(data.title, <<".", ".", ".">>)
\* a main text of 70 characters cut back to a word boundary, with no ellipsis
CutTitleWithoutEllipsis ==
    /\ asmStage = "returned"
    /\ asmUrl = UrlRoot
    /\ Len(data.mainTextContent) = 70
    /\ Len(data.title) < 70
    /\ ~EndsWith(data.title, <<".", ".", ".">>)

\* ------------------------------------------------------------------ the type of a URL

\* the keyword lists in the order they are consulted, with the type each one gives
StatedLists ==
    << <<URL_PATTERNS.product, "product">>, <<URL_PATTERNS.blog, "blog">>,
       <<URL_PATTERNS.category, "category">>, <<URL_PATTERNS.collection, "collection">>,
       <<URL_PATTERNS.forum, "forum">>, <<URL_PATTERNS.search, "search">>,
       <<URL_PATTERNS.error, "error">>, <<URL_PATTERNS.staticPageKeywords, "page">> >>
HasKeyword(path, i) == \E k \in 1..Len(StatedLists[i][1]) : Includes(path, StatedLists[i][1][k])
SomeKeyword(path) == \E i \in 1..Len(StatedLists) : HasKeyword(path, i)
\* the type of the first list with a keyword in the path
StatedType(path) ==
    StatedLists[CHOOSE i \in 1..Len(StatedLists) :
                   HasKeyword(path, i) /\ \A j \in 1..(i - 1) : ~HasKeyword(path, j)][2]
\* the page the assembler is run on shows no type of its own, and its URL parses
NoTypeSignal ==
    /\ asmDoc.ld = <<>>
    /\ Q(asmDoc, "meta[property=\"og:type\"]") = <<>>
    /\ TypeFromDom(asmDoc, siteSelectors) = "unknown"
    /\ ParseUrl(asmUrl).ok
AsmPath == ToLower(ParseUrl(asmUrl).pathname)
AsmQuery == ToLower(ParseUrl(asmUrl).search)
\* a query that asks for a search
SearchQuery(query) ==
    Includes(query, <<"q", "=">>) \/ Includes(query, <<"q", "u", "e", "r", "y",
            "=">>) \/ Includes(query, <<"s", "e", "a", "r", "c", "h", "=">>)
\* the steps of the amended statement in their order: the seven keyword lists before the
\* static pages (the search step also on the query), the sitemap, robots and feed paths,
\* and the static pages
AmendedSteps ==
    << "product", "blog", "category", "collection", "forum", "search", "error",
       "sitemap", "robots", "feed", "page" >>
StepFires(i, path, query, feedDocument) ==
    CASE i \in 1..5 -> HasKeyword(path, i)
      [] i = 6 -> HasKeyword(path, 6) \/ SearchQuery(query)
      [] i = 7 -> HasKeyword(path, 7)
      [] i = 8 -> \/ path = <<"/", "s", "i", "t", "e", "m", "a", "p", ".", "x", "m", "l">>
                  \/ EndsWith(path, <<"/", "s", "i", "t", "e", "m", "a", "p", ".", "x", "m", "l">>)
                  \/ Includes(path, <<"s", "i", "t", "e", "m", "a", "p", "_", "i", "n", "d", "e",
                          "x", ".", "x", "m", "l">>)
      [] i = 9 -> path = <<"/", "r", "o", "b", "o", "t", "s", ".", "t", "x", "t">>
      [] i = 10 -> \/ path \in { <<"/", "f", "e", "e", "d">>, <<"/", "r", "s", "s">> }
                   \/ EndsWith(path, <<".", "x", "m", "l">>) /\ feedDocument
      [] i = 11 -> path = <<"/">> \/ HasKeyword(path, 8)
\* the type of the first step that fires, 'unknown' when none does
AmendedType(path, query, feedDocument) ==
    IF \E i \in 1..Len(AmendedSteps) : StepFires(i, path, query, feedDocument)
    THEN AmendedSteps[CHOOSE i \in 1..Len(AmendedSteps) :
                         /\ StepFires(i, path, query, feedDocument)
                         /\ \A j \in 1..(i - 1) : ~StepFires(j, path, query, feedDocument)]
    ELSE "unknown"

\* C25 as stated: without structured data, og:type and DOM signal the type is that of
\* the first keyword list (product, blog, category, collection, forum, search, error,
\* static page) with a keyword in the URL path, whatever else the URL holds.
C25_PathAloneDecides ==
    (asmStage = "page-type" /\ NoTypeSignal /\ SomeKeyword(AsmPath))
    => data.pageTypeGuess = StatedType(AsmPath)

\* C25: without structured data, og:type and DOM signal, and with a URL that parses, the
\* type is that of the first step that fires, in this order: a keyword of the product,
\* blog, category, collection, forum, search or error list in the lower-cased path, the
\* search step also on a query holding q=, query= or search=; then the sitemap paths,
\* /robots.txt, and the feed paths (/feed, /rss, an .xml path of an RSS or Atom
\* document); then the path '/' or a static-page keyword. With no step firing the type
\* stays 'unknown'.
C25_FirstStepOfUrlDecides ==
    (asmStage = "page-type" /\ NoTypeSignal)
    => data.pageTypeGuess = AmendedType(AsmPath, AsmQuery, asmDoc.rss)

\* a static-page path whose query asks for a search classified as search
SearchQueryBeforePage ==
    /\ asmStage = "page-type" /\ NoTypeSignal
    /\ asmUrl = <<"h", "t", "t", "p", "s", ":", "/", "/", "s", "h", "o", "p", ".", "t", "e", "s",
            "t", "/", "a", "b", "o", "u", "t", "-", "u", "s", "?", "q", "=", "k", "e", "t", "t",
                    "l", "e">>
    /\ data.pageTypeGuess = "search"
\* the cases of the statement, each at the page-type step of a page without a type signal
TypedAs(pageUrl, feedDocument, type) ==
    /\ asmStage = "page-type" /\ NoTypeSignal
    /\ asmUrl = pageUrl
    /\ asmDoc.rss = feedDocument
    /\ data.pageTypeGuess = type
ProductKeywordBeforeBlog == TypedAs(<<"h", "t", "t", "p", "s", ":", "/", "/", "s", "h", "o", "p",
        ".", "t", "e", "s", "t", "/", "b", "l", "o", "g", "/", "p", "r", "o", "d", "u", "c", "t",
                "-", "n", "e", "w", "s">>, FALSE, "product")
BlogKeywordAlone == TypedAs(<<"h", "t", "t", "p", "s", ":", "/", "/", "s", "h", "o", "p", ".",
        "t", "e", "s", "t", "/", "b", "l", "o", "g", "/", "x", "1">>, FALSE, "blog")
QueryAloneIsSearch == TypedAs(<<"h", "t", "t", "p", "s", ":", "/", "/", "s", "h", "o", "p", ".",
        "t", "e", "s", "t", "/", "x", "/", "4", "2", "?", "q", "=", "k", "e", "t", "t", "l",
                "e">>, FALSE, "search")
QueryBeforeErrorList == TypedAs(<<"h", "t", "t", "p", "s", ":", "/", "/", "s", "h", "o", "p", ".",
        "t", "e", "s", "t", "/", "4", "0", "4", "?", "q", "=", "k", "e", "t", "t", "l",
                "e">>, FALSE, "search")
ForumBeforeQuery == TypedAs(<<"h", "t", "t", "p", "s", ":", "/", "/", "s", "h", "o", "p", ".",
        "t", "e", "s", "t", "/", "f", "o", "r", "u", "m", "/", "x", "?", "s", "e", "a", "r", "c",
                "h", "=", "k", "e", "t", "t", "l", "e">>, FALSE, "forum")
SitemapPathIsSitemap == TypedAs(<<"h", "t", "t", "p", "s", ":", "/", "/", "s", "h", "o", "p", ".",
        "t", "e", "s", "t", "/", "s", "i", "t", "e", "m", "a", "p", ".", "x", "m",
                "l">>, FALSE, "sitemap")
SitemapIndexIsSitemap == TypedAs(<<"h", "t", "t", "p", "s", ":", "/", "/", "s", "h", "o", "p",
        ".", "t", "e", "s", "t", "/", "s", "i", "t", "e", "m", "a", "p", "_", "i", "n", "d", "e",
                "x", ".", "x", "m", "l">>, TRUE, "sitemap")
BlogKeywordBeforeSitemap == TypedAs(<<"h", "t", "t", "p", "s", ":", "/", "/", "s", "h", "o", "p",
        ".", "t", "e", "s", "t", "/", "n", "e", "w", "s", "/", "s", "i", "t", "e", "m", "a", "p",
                ".", "x", "m", "l">>, FALSE, "blog")
RobotsPathIsRobots == TypedAs(<<"h", "t", "t", "p", "s", ":", "/", "/", "s", "h", "o", "p", ".",
        "t", "e", "s", "t", "/", "r", "o", "b", "o", "t", "s", ".", "t", "x",
                "t">>, FALSE, "robots")
FeedPathIsFeed == TypedAs(<<"h", "t", "t", "p", "s", ":", "/", "/", "s", "h", "o", "p", ".", "t",
        "e", "s", "t", "/", "f", "e", "e", "d">>, FALSE, "feed")
RssPathIsFeed == TypedAs(<<"h", "t", "t", "p", "s", ":", "/", "/", "s", "h", "o", "p", ".", "t",
        "e", "s", "t", "/", "r", "s", "s">>, FALSE, "feed")
XmlOfFeedDocumentIsFeed == TypedAs(<<"h", "t", "t", "p", "s", ":", "/", "/", "s", "h", "o", "p",
        ".", "t", "e", "s", "t", "/", "x", "/", "4", "2", ".", "x", "m", "l">>, TRUE, "feed")
XmlOfOtherDocumentUnknown == TypedAs(<<"h", "t", "t", "p", "s", ":", "/", "/", "s", "h", "o", "p",
        ".", "t", "e", "s", "t", "/", "x", "/", "4", "2", ".", "x", "m", "l">>, FALSE, "unknown")
RootIsPage == TypedAs(<<"h", "t", "t", "p", "s", ":", "/", "/", "s", "h", "o", "p", ".", "t", "e",
        "s", "t", "/">>, FALSE, "page")
StaticKeywordIsPage == TypedAs(<<"h", "t", "t", "p", "s", ":", "/", "/", "s", "h", "o", "p", ".",
        "t", "e", "s", "t", "/", "a", "b", "o", "u", "t", "-", "u", "s">>, FALSE, "page")
NoStepFiresUnknown == TypedAs(<<"h", "t", "t", "p", "s", ":", "/", "/", "s", "h", "o", "p", ".",
        "t", "e", "s", "t", "/", "x", "/", "4", "2">>, FALSE, "unknown")

\* ------------------------------------------------------------------ the order of the stages

\* the place of a stage in the pipeline
StageOrder ==
    << "init", "hostname-extraction", "auto-selector-discovery", "axios-fetch-attempt",
            "initial-cheerio-parse",
       "headless-decision", "headless-fetch-attempt", "headless-closing",
       "final-data-assembly", "ai-analysis-decision", "ai-call", "final-currency-mapping",
       "global-catch", "global-finally-close-browser", "returned" >>
StageRank(stage) == CHOOSE i \in 1..Len(StageOrder) : StageOrder[i] = stage

\* C26: within one request the stages only move forward (light fetch, assembly, headless
\* fetch with re-assembly, enrichment, finalize); the light fetch, the headless fetch
\* and the LLM call each happen at most once; the browser is launched only after the
\* light fetch, and the LLM is called only after the headless stage, with no browser
\* open.
C26_StagesInOrder ==
    /\ [](axiosCalls <= 1 /\ browserLaunches <= 1 /\ aiCalls <= 1)
    /\ [][StageRank(operationStage') >= StageRank(operationStage)]_vars
    /\ [][browserLaunches' > browserLaunches
          => /\ axiosCalls = 1
             /\ StageRank(operationStage) > StageRank("initial-cheerio-parse")]_vars
    /\ [][aiCalls' > aiCalls
          => /\ playwrightBrowser = "null"
             /\ StageRank(operationStage) > StageRank("headless-closing")]_vars

\* a request that went through the light fetch, the browser and the LLM
AllThreeStagesRan ==
    /\ operationStage = "returned"
    /\ axiosCalls = 1 /\ browserLaunches = 1 /\ aiCalls = 1
    /\ response.status = 200

\* ------------------------------------------------------------------ the samples of a field

\* the samples of the stated restriction: those whose quick type is in the list of the
\* field; all of them when the field has no list or no sample has a type of the list
InList(target, samples) ==
    SelectSeq(samples, LAMBDA s : s.typeGuess \in target.relevantPageTypes)
StatedSamples(target, samples) ==
    IF target.relevantPageTypes = {} \/ InList(target, samples) = <<>>
    THEN samples
    ELSE InList(target, samples)

\* C27: a candidate of a field with a list of relevant page types is tested against
\* exactly the fetched samples whose quick type is in that list, and against all fetched
\* samples only when the field has no list or no sample has a type of the list; a sample
\* of another type, unknown included, adds nothing to the score while some sample has a
\* type of the list. Stated of the samples chosen for every field and of the profile
\* the loop has built from them.
C27_OnlyListedTypesScored ==
    /\ htmlSamples # <<>>
       => \A i \in 1..Len(TARGET_SELECTOR_KEYS) :
             samplesToScoreAgainst(TARGET_SELECTOR_KEYS[i], htmlSamples)
                = StatedSamples(TARGET_SELECTOR_KEYS[i], htmlSamples)
    /\ \A i \in 1..(targetIndex - 1) :
          FieldAsStated(finalDiscoveredSelectors, TARGET_SELECTOR_KEYS[i], initialAiSelectors,
                        StatedSamples(TARGET_SELECTOR_KEYS[i], htmlSamples))
\* the profile alone, as the stated samples would have built it
ProfileFromListedTypes ==
    \A i \in 1..(targetIndex - 1) :
        FieldAsStated(finalDiscoveredSelectors, TARGET_SELECTOR_KEYS[i], initialAiSelectors,
                      StatedSamples(TARGET_SELECTOR_KEYS[i], htmlSamples))
\* a run has ended that scored a sample of unknown type for a field of product pages
\* next to a sample of a product page
UnknownSampleScoredForProductField ==
    /\ discoverStage = "returned"
    /\ \E i \in 1..Len(htmlSamples) : htmlSamples[i].typeGuess = "product"
    /\ \E i \in 1..Len(ScoredSamples("price")) :
          ScoredSamples("price")[i].typeGuess = "unknown"

\* ------------------------------------------------------------------ the sitemap call

\* the page URLs of the documents the requests of the call were answered with
LocationsOf(doc) ==
    IF doc.kind = "feed" THEN [i \in 1..Len(doc.locs) |-> AtomLocation(doc.locs[i])]
    ELSE doc.locs
PagesOf(doc, base) ==
    IF doc.kind \in {"urlset", "rss", "feed"}
    THEN { UrlJoin(LocationsOf(doc)[i], base) :
             i \in { j \in 1..Len(doc.locs) :
                       LocationsOf(doc)[j] # <<>> /\ UrlJoin(LocationsOf(doc)[j], base) # Null } }
    ELSE {}
FetchedPages ==
    UNION { PagesOf(sitemapFetches[i].doc, sitemapFetches[i].url) :
              i \in 1..Len(sitemapFetches) }
EachOnce(s) == \A i, j \in 1..Len(s) : i # j => s[i] # s[j]

\* C29: for every finite sitemap structure, indexes that list each other or themselves
\* included, a top-level call of fetchAndParseSitemap returns; it requests no sitemap URL
\* twice and none nested deeper than depth 10, and the value it returns holds, each once,
\* the page URLs of the sitemaps it did get, also when a request for a sitemap fails or a
\* document cannot be parsed.
C29_SitemapCallTerminates ==
    /\ <>(sitemapStage = "returned")
    /\ [](\A i, j \in 1..Len(sitemapFetches) :
             i # j => sitemapFetches[i].url # sitemapFetches[j].url)
    /\ [](\A i \in 1..Len(sitemapFetches) : sitemapFetches[i].depth <= 10)
    /\ [](sitemapStage = "returned"
          => /\ EachOnce(sitemapResult)
             /\ { sitemapResult[i] : i \in 1..Len(sitemapResult) } = FetchedPages)
\* a call has returned the pages of two indexes that list each other, after a request
\* for one of their sitemaps had failed
CycleCutAndFailureSurvived ==
    /\ sitemapStage = "returned"
    /\ sitemapSite = Served(CyclicSite)
    /\ \E i \in 1..Len(sitemapFetches) : sitemapFetches[i].doc.kind = "error"
    /\ \E i \in 1..Len(sitemapFetches) : sitemapFetches[i].url = <<"h", "t", "t", "p", "s", ":",
            "/", "/", "s", "h", "o", "p", ".", "t", "e", "s", "t", "/", "b", ".", "x", "m", "l">>
    /\ Len(sitemapFetches) = 5
    /\ Len(sitemapResult) = 2
\* a call has returned from a chain of indexes it followed down to depth 10 and no further
ChainCutAtDepthLimit ==
    /\ sitemapStage = "returned"
    /\ sitemapSite = Served(ChainSite)
    /\ \E i \in 1..Len(sitemapFetches) : sitemapFetches[i].depth = MaxSitemapDepth
    /\ Len(sitemapResult) = MaxSitemapDepth
\* a call has returned the pages of a sitemap found through robots.txt
SitemapFoundThroughRobots ==
    /\ sitemapStage = "returned"
    /\ ~LooksLikeSitemapUrl(sitemapInput)
    /\ sitemapResult = << <<"h", "t", "t", "p", "s", ":", "/", "/", "s", "h", "o", "p", ".", "t",
            "e", "s", "t", "/", "p", "/", "1">> >>
\* a call has returned although a location of an index was no URL: the sitemaps listed
\* after it were not requested
IndexAbortedAtBadLocation ==
    /\ sitemapStage = "returned"
    /\ sitemapSite = Served(BrokenSite)
    /\ \E i \in 1..Len(sitemapFetches) : sitemapFetches[i].url = <<"h", "t", "t", "p", "s", ":",
            "/", "/", "s", "h", "o", "p", ".", "t", "e", "s", "t", "/", "p", "a", "g", "e", "s",
                    ".", "x", "m", "l">>
    /\ \A i \in 1..Len(sitemapFetches) : sitemapFetches[i].url # <<"h", "t", "t", "p", "s", ":",
            "/", "/", "s", "h", "o", "p", ".", "t", "e", "s", "t", "/", "a", "f", "t", "e", "r",
                    ".", "x", "m", "l">>
    /\ Len(sitemapResult) = 5
\* a call has returned the pages of an Atom feed: the href of the first link of an entry
\* that is an alternate or has no rel, the id of an entry without links when it starts
\* with http, and nothing for the other entries
AtomPagesCollected ==
    /\ sitemapStage = "returned"
    /\ sitemapSite = Served(BrokenSite)
    /\ \A n \in { <<"2">>, <<"3">>, <<"7">> } :
          \E i \in 1..Len(sitemapResult) : sitemapResult[i] = <<"h", "t", "t", "p", "s", ":", "/",
                  "/", "s", "h", "o", "p", ".", "t", "e", "s", "t", "/", "n", "/">> \o n
    /\ \A n \in { <<"3", "b">>, <<"4">>, <<"5">>, <<"6">> } :
          \A i \in 1..Len(sitemapResult) : sitemapResult[i] # <<"h", "t", "t", "p", "s", ":", "/",
                  "/", "s", "h", "o", "p", ".", "t", "e", "s", "t", "/", "n", "/">> \o n

\* ------------------------------------------------------------------ the retries of the client

LastAttempt == clientAttempts[Len(clientAttempts)]
\* the failures after which a request is sent again, as stated: a 429 status, a 5xx
\* status, a timeout or an error without a status
StatedRetryable(attempt) ==
    /\ ~attempt.ok
    /\ \/ attempt.status = 429
       \/ attempt.status \in 500..599
       \/ attempt.status = 0

\* C30: a request sent through the sitemap client is sent again by the retry interceptor
\* at most 3 times, 4 attempts in all, and only after a 429 status, a 5xx status, a
\* timeout or an error without a status; a failure with another status is returned to
\* the caller without another attempt, at the first attempt already, and the failure of
\* the third re-send is returned to the caller as well.
C30_AtMostThreeRetries ==
    /\ [](Len(clientAttempts) <= 4)
    /\ [][Len(clientAttempts') > Len(clientAttempts) /\ clientAttempts # <<>>
          => StatedRetryable(LastAttempt)]_vars
    /\ [](clientAttempts # <<>> /\ ~LastAttempt.ok /\ ~StatedRetryable(LastAttempt)
          => clientStage = "settled" /\ clientOutcome = "rejected")
    /\ [](Len(clientAttempts) = 4 /\ ~LastAttempt.ok
          => clientStage = "settled" /\ clientOutcome = "rejected")
\* the third re-send of a request has failed and the caller has the error
ThirdRetryFailed ==
    /\ clientOutcome = "rejected"
    /\ Len(clientAttempts) = 4
    /\ retryCount = RetryLimit
    /\ LastAttempt.status = 503
    /\ clientAttempts[1].status = 429
\* a 404 has been returned to the caller after one attempt
NotFoundReturnedAtOnce ==
    /\ clientOutcome = "rejected"
    /\ Len(clientAttempts) = 1
    /\ LastAttempt.status = 404
\* a request has succeeded at its second re-send
SucceededAfterRetries ==
    /\ clientOutcome = "fulfilled"
    /\ Len(clientAttempts) = 3
    /\ clientAttempts[1].code = "ECONNABORTED"
====
